---- MODULE Spec2Model ----
(***************************************************************************)
(* Verification model of rs-mojave_network: the ConnectionId allocator,    *)
(* the peer manager with its pending tasks, the node event loop and the    *)
(* substream negotiators.                                                  *)
(***************************************************************************)
EXTENDS Integers, Sequences, FiniteSets, TLC

(* ------------------------------ bounds --------------------------------- *)
\* number of connection attempts (dials plus incoming upgrades) in a run
MaxConn == 2
\* number of listener events other than Incoming a transport reports in a run
MaxListenerEvents == 1
\* number of connection attempts when the peer manager is driven directly
MaxMgrConn == 2
\* number of live ids the allocator harness keeps at once
MaxLive == 4
\* number of Node::dial calls that return an error in a run
MaxLeaked == 1

Peers == {"p1", "p2"}
NoPeer == "nopeer"
TransportKeys == {"WebTransport"}

VARIABLES
    slab,                \* CONNECTION_ID_ALLOCATOR: Slab<()>
    idRet,               \* allocator harness: outcome of the last call
    conns,               \* one record per connection attempt: its futures and pending task
    pending,             \* Manager.pending
    established,         \* Manager.established
    drivers,             \* driver tasks spawned by spawn_connection
    pending_peer_events, \* the mpsc channel behind pending_peer_events_tx / _rx
    peerOut,             \* PeerEvents returned by Manager::poll so far
    transports,          \* Node.transports (keys)
    pending_events,      \* Node.pending_events
    nodeOut,             \* NodeEvents returned by Node::poll_next so far
    nodePc,              \* position of the caller inside Node::poll_next_event
    dialRet,             \* the last Node::dial call: its address and its result
    listenerEvents,      \* number of listener events reported so far
    panicked,            \* "none", or the reason of a fatal failure
    neg,                 \* the negotiator futures at the two ends of a substream
    negActive,           \* the ends that run a negotiator of this repository
    rx,                  \* frames that have arrived at an end and are not read yet
    rxClosed,            \* the remote of an end has closed the substream
    wire,                \* frames an end has flushed and that are in transit
    remoteFrames,        \* number of frames a foreign remote has sent to an end
    driver,              \* one new_established_connection task: position, handler, muxer
    command_channel,     \* the mpsc channel of Command behind command_receiver
    event_channel,       \* the mpsc channel of EstablishedConnectionEvent behind event_sender
    drvLog,              \* what the driver and its peers have done so far
    transportReady,      \* per transport, the TransportEvent its next poll returns
    returned,            \* what the last call of poll_next_event returned
    builder,             \* Builder: its step, its transports and the calls made on it
    roundTrip,           \* an input of from_str or to_string and the conversions applied to it
    handler,             \* ping::Handler of one connection
    substreams,          \* the outbound and the inbound ping substream of that connection
    pingLog              \* what the handler returned and what its pings carried so far

idVars == <<slab, idRet>>
mgrVars == <<conns, pending, established, drivers, pending_peer_events, peerOut>>
nodeVars == <<transports, pending_events, nodeOut, nodePc, dialRet, listenerEvents>>
negVars == <<neg, negActive, rx, rxClosed, wire, remoteFrames>>
drvVars == <<driver, command_channel, event_channel, drvLog>>
pollVars == <<transportReady, returned>>
pingVars == <<handler, substreams, pingLog>>

(* --------------------------- helpers ----------------------------------- *)
Range(s) == {s[i] : i \in DOMAIN s}

CountIn(s, P(_)) == Cardinality({i \in DOMAIN s : P(s[i])})

MapRemoveNothing(m, k) == m

\* HashMap::remove: the map without key k
MapRemove(m, k) == [x \in DOMAIN m \ {k} |-> m[x]]

\* HashMap::insert: the map with key k bound to v (an existing binding is replaced)
MapInsert(m, k, v) == [x \in DOMAIN m \cup {k} |-> IF x = k THEN v ELSE m[x]]

EmptyMap == [x \in {} |-> 0]

(* ----------------------- ConnectionId allocator ------------------------ *)
\* slab::Slab<()>: entries are Occupied or Vacant(next free key); keys are 0-based
Occupied == [occ |-> TRUE, nxt |-> 0]
Vacant(n) == [occ |-> FALSE, nxt |-> n]

EmptySlab == [entries |-> << >>, next |-> 0]

\* the ids currently allocated
Live(s) == {k \in 0..(Len(s.entries) - 1) : s.entries[k + 1].occ}

\* Slab::insert: the key handed out is the head of the free list
SlabKey(s) == s.next

SlabInsert(s) ==
    IF s.next = Len(s.entries)
    THEN [entries |-> Append(s.entries, Occupied), next |-> s.next + 1]
    ELSE [entries |-> [s.entries EXCEPT ![s.next + 1] = Occupied],
          next |-> s.entries[s.next + 1].nxt]

\* Slab::remove panics ("invalid key") unless the key is occupied
SlabCanRemove(s, k) == k \in Live(s)

\* a removal that leaves the freed slot pointing at itself instead of the old free list
SlabRemoveSelfLink(s, k) ==
    [entries |-> [s.entries EXCEPT ![k + 1] = Vacant(k)], next |-> k]

SlabRemove(s, k) ==
    [entries |-> [s.entries EXCEPT ![k + 1] = Vacant(s.next)], next |-> k]

\* ConnectionId::next
ConnectionIdNext(s) == [id |-> SlabKey(s), slab |-> SlabInsert(s)]

\* a removal that ignores a key that is not occupied
ConnectionIdRemoveSilent(s, k) ==
    IF SlabCanRemove(s, k)
    THEN [panic |-> FALSE, slab |-> SlabRemove(s, k)]
    ELSE [panic |-> FALSE, slab |-> s]

\* ConnectionId::remove: panics on a key that is not occupied, leaving the slab as it was
ConnectionIdRemove(s, k) ==
    IF SlabCanRemove(s, k)
    THEN [panic |-> FALSE, slab |-> SlabRemove(s, k)]
    ELSE [panic |-> TRUE, slab |-> s]

(* -------------------- pending tasks and peer manager ------------------- *)
\* a connection attempt: the upgrade future handed to add_outgoing / add_incoming,
\* the oneshot abort channel and the pending task spawned for it
NewConn(id, dir, fut, ferr) ==
    [id |-> id, dir |-> dir, fut |-> fut, fpeer |-> NoPeer, ferr |-> ferr,
     sender |-> "alive", task |-> "select", released |-> 0, abortedAt |-> "never"]

\* PendingPeer: origin, abort notifier (Some / None); att names the attempt it belongs to
PendingPeer(origin, a) == [connection_origin |-> origin, abort_notifier |-> TRUE, att |-> a]

\* task::PendingPeerEvent as sent through the pending-event channel
PendingPeerEvent(type, a, c, error) ==
    [type |-> type, connection_id |-> c.id, att |-> a, peer |-> c.fpeer,
     side |-> IF c.dir = "out" THEN "Left" ELSE "Right", error |-> error]

\* a select that lets a successful upgrade win over the abort
TaskOutcomeResultKept(a, c) ==
    IF c.fut = "ok" THEN PendingPeerEvent("ConnectionEstablished", a, c, "none")
    ELSE IF c.sender = "dropped" THEN PendingPeerEvent("PendingFailed", a, c, "Aborted")
    ELSE PendingPeerEvent("PendingFailed", a, c, c.ferr)

\* a select that polls the upgrade future before the abort receiver
TaskOutcomeFutureFirst(a, c) ==
    IF c.fut = "ok" THEN PendingPeerEvent("ConnectionEstablished", a, c, "none")
    ELSE IF c.fut = "err" THEN PendingPeerEvent("PendingFailed", a, c, c.ferr)
    ELSE PendingPeerEvent("PendingFailed", a, c, "Aborted")

\* what select(abort_receiver, future) yields: the abort receiver is polled first
TaskOutcome(a, c) ==
    IF c.sender = "dropped" THEN PendingPeerEvent("PendingFailed", a, c, "Aborted")
    ELSE IF c.fut = "ok" THEN PendingPeerEvent("ConnectionEstablished", a, c, "none")
    ELSE PendingPeerEvent("PendingFailed", a, c, c.ferr)

TaskReady(c) == c.task = "select" /\ (c.sender = "dropped" \/ c.fut # "pending")

\* the upgrade future of attempt a resolves (transport side)
FutureResolve(a) ==
    /\ panicked = "none"
    /\ a \in DOMAIN conns
    /\ conns[a].task = "select"
    /\ conns[a].fut = "pending"
    /\ \/ \E p \in Peers : conns' = [conns EXCEPT ![a].fut = "ok", ![a].fpeer = p]
       \/ conns' = [conns EXCEPT ![a].fut = "err", ![a].ferr = "Transport(Other(io))"]
    /\ UNCHANGED <<pending, established, drivers, pending_peer_events, peerOut>>
    /\ UNCHANGED <<idVars, nodeVars, panicked>>
    /\ UNCHANGED negVars
    /\ UNCHANGED pollVars
    /\ UNCHANGED builder
    /\ UNCHANGED drvVars
    /\ UNCHANGED builder
    /\ UNCHANGED roundTrip
    /\ UNCHANGED pingVars

\* new_pending_outgoing_peer / new_pending_inbound_peer: the select completes and
\* the task sends its single event. Every sender clone owns one slot of the
\* channel, so the event is queued at once; the task ends when send returns.
TaskPoll(a) ==
    /\ panicked = "none"
    /\ a \in DOMAIN conns
    /\ TaskReady(conns[a])
    /\ pending_peer_events' = Append(pending_peer_events, TaskOutcome(a, conns[a]))
    /\ conns' = [conns EXCEPT ![a].task = "done"]
    /\ UNCHANGED <<pending, established, drivers, peerOut>>
    /\ UNCHANGED <<idVars, nodeVars, panicked>>
    /\ UNCHANGED negVars
    /\ UNCHANGED pollVars
    /\ UNCHANGED builder
    /\ UNCHANGED drvVars
    /\ UNCHANGED builder
    /\ UNCHANGED roundTrip
    /\ UNCHANGED pingVars

\* manager::PeerEvent as returned by Manager::poll
PeerEvent(type, ev, origin) ==
    [type |-> type, connection_id |-> ev.connection_id, peer_id |-> ev.peer,
     connection_origin |-> origin, error |-> ev.error, att |-> ev.att]

\* dropping a PendingPeer drops its abort notifier, if it still holds one
DropNotifier(cs, pp) ==
    IF pp.abort_notifier THEN [cs EXCEPT ![pp.att].sender = "dropped"] ELSE cs

\* pending.remove(&connection_id)
PendingRemove(pend, id) == IF id \in DOMAIN pend THEN MapRemove(pend, id) ELSE pend

\* a promotion that reads the pending entry without removing it
HandleEstablishedKeep(ev) ==
    IF ev.connection_id \notin DOMAIN pending
    THEN /\ panicked' = "pending entry not found"
         /\ UNCHANGED <<conns, pending, peerOut, slab>>
    ELSE /\ peerOut' = Append(peerOut,
                PeerEvent("ConnectionEstablished", ev, pending[ev.connection_id].connection_origin))
         /\ UNCHANGED <<conns, pending, slab, panicked>>

\* Manager::handle_pending_peer_event_connection_established
HandleEstablished(ev) ==
    IF ev.connection_id \notin DOMAIN pending
    THEN /\ panicked' = "pending entry not found"
         /\ UNCHANGED <<conns, pending, peerOut, slab>>
    ELSE /\ pending' = MapRemove(pending, ev.connection_id)
         /\ conns' = DropNotifier(conns, pending[ev.connection_id])
         /\ peerOut' = Append(peerOut,
                PeerEvent("ConnectionEstablished", ev, pending[ev.connection_id].connection_origin))
         /\ UNCHANGED <<slab, panicked>>

\* a failure path that forgets to hand the id back to the allocator
HandleFailedLeak(ev) ==
    /\ pending' = PendingRemove(pending, ev.connection_id)
    /\ conns' = IF ev.connection_id \in DOMAIN pending
                THEN DropNotifier(conns, pending[ev.connection_id]) ELSE conns
    /\ peerOut' = Append(peerOut,
           PeerEvent(IF ev.side = "Left" THEN "PendingOutboundConnectionError"
                     ELSE "PendingInboundConnectionError", ev, "none"))
    /\ UNCHANGED <<slab, panicked>>
    /\ UNCHANGED roundTrip
    /\ UNCHANGED pingVars

\* Manager::handle_pending_peer_event_pending_failed
HandleFailed(ev) ==
    LET cs == IF ev.connection_id \in DOMAIN pending
              THEN DropNotifier(conns, pending[ev.connection_id]) ELSE conns
        r == ConnectionIdRemove(slab, ev.connection_id)
    IN /\ pending' = PendingRemove(pending, ev.connection_id)
       /\ IF ~r.panic
          THEN /\ slab' = r.slab
               /\ conns' = [cs EXCEPT ![ev.att].released = @ + 1]
               /\ peerOut' = Append(peerOut,
                      PeerEvent(IF ev.side = "Left" THEN "PendingOutboundConnectionError"
                                ELSE "PendingInboundConnectionError", ev, "none"))
               /\ UNCHANGED panicked
          ELSE /\ panicked' = "invalid key"
               /\ conns' = cs
               /\ UNCHANGED <<slab, peerOut>>

\* Manager::poll when it returns Ready: no driver receiver is ever registered in
\* peer_events and new_peer_dropped_listeners stays empty, so the result is the
\* head of the pending-event channel
ManagerPollReady ==
    /\ pending_peer_events # << >>
    /\ pending_peer_events' = Tail(pending_peer_events)
    /\ LET ev == Head(pending_peer_events)
       IN IF ev.type = "ConnectionEstablished" THEN HandleEstablished(ev) ELSE HandleFailed(ev)
    /\ UNCHANGED <<established, drivers>>
    /\ UNCHANGED roundTrip
    /\ UNCHANGED pingVars

ManagerPollPendingUnchecked == TRUE

\* Manager::poll returns Poll::Pending
ManagerPollPending == pending_peer_events = << >>

\* an attempt whose task is spawned without an entry in pending
AddPendingNoEntry(dir, origin, fut, ferr) ==
    LET n == ConnectionIdNext(slab)
    IN /\ slab' = n.slab
       /\ conns' = Append(conns, NewConn(n.id, dir, fut, ferr))
       /\ pending' = pending

\* an attempt registered under id 0 without asking the allocator
AddPendingNotFresh(dir, origin, fut, ferr) ==
    /\ slab' = slab
    /\ conns' = Append(conns, NewConn(0, dir, fut, ferr))
    /\ pending' = MapInsert(pending, 0, PendingPeer(origin, Len(conns) + 1))

\* Manager::add_outgoing / add_incoming with a freshly allocated id
AddPending(dir, origin, fut, ferr) ==
    LET n == ConnectionIdNext(slab)
        id == n.id
        a == Len(conns) + 1
    IN /\ slab' = n.slab
       /\ conns' = Append(conns, NewConn(id, dir, fut, ferr))
       /\ pending' = MapInsert(pending, id, PendingPeer(origin, a))

\* Manager::spawn_connection: records the established connection and spawns its
\* driver task; the event receiver it creates is dropped when it returns
SpawnConnection(connection_id, peer_id, origin, a) ==
    LET connections == IF peer_id \in DOMAIN established THEN established[peer_id] ELSE EmptyMap
    IN /\ established' = MapInsert(established, peer_id,
              MapInsert(connections, connection_id, [connection_origin |-> origin]))
       /\ drivers' = drivers \cup {[connection_id |-> connection_id, peer_id |-> peer_id, att |-> a]}

\* PendingPeer::abort
Abort(pp) == [pp EXCEPT !.abort_notifier = FALSE]

(* ------------------------------- node ---------------------------------- *)
NodeEvent(type, id, peer, a) == [type |-> type, connection_id |-> id, peer_id |-> peer, att |-> a]

ListenerEventTypes == {"NewListenAddr", "AddressExpired", "ListenerClosed", "ListenerError"}

\* ids that are live in the allocator although no attempt owns them
Leaked == Live(slab) \ {conns[a].id : a \in DOMAIN conns}

ExtractProtocolAny(addr) == "WebTransport"

\* extract_protocol_from_multiaddr: the address has a WebTransport component or not
ExtractProtocol(addr) == IF addr = "wt" THEN "WebTransport" ELSE "NoProtocolsInMultiaddr"

\* Node::dial(remote_peer_id, remote_address); res is what transport.dial returns
Dial(addr, res) ==
    /\ panicked = "none"
    /\ nodePc = "idle"
    /\ LET protocol == ExtractProtocol(addr)
       IN IF protocol = "NoProtocolsInMultiaddr" \/ protocol \notin transports
          THEN /\ Cardinality(Leaked) < MaxLeaked
               /\ slab' = ConnectionIdNext(slab).slab
               /\ dialRet' = [addr |-> addr,
                              ret |-> IF protocol = "NoProtocolsInMultiaddr" THEN protocol
                                      ELSE "TransportNotFound"]
               /\ UNCHANGED <<conns, pending>>
          ELSE /\ Len(conns) < MaxConn
               /\ IF res = "Ok"
                  THEN AddPending("out", "Dialer", "pending", "none")
                  ELSE AddPending("out", "Dialer", "err", "Transport(dial)")
               /\ dialRet' = [addr |-> addr, ret |-> "Ok"]
    /\ UNCHANGED <<established, drivers, pending_peer_events, peerOut>>
    /\ UNCHANGED <<idRet, transports, pending_events, nodeOut, nodePc, listenerEvents, panicked>>
    /\ UNCHANGED negVars
    /\ UNCHANGED pollVars
    /\ UNCHANGED builder
    /\ UNCHANGED drvVars
    /\ UNCHANGED builder
    /\ UNCHANGED roundTrip
    /\ UNCHANGED pingVars

\* a handler that queues nothing for an established connection
HandlePeerEventDrop(q, pe) == q

\* Node::handle_peer_event
HandlePeerEvent(q, pe) ==
    IF pe.type = "ConnectionEstablished"
    THEN Append(q, NodeEvent("ConnectionEstablished", pe.connection_id, pe.peer_id, pe.att))
    ELSE q

\* poll_next_event: a queued event is returned first
PollNextPop ==
    /\ panicked = "none"
    /\ pending_events # << >>
    /\ nodeOut' = Append(nodeOut, Head(pending_events))
    /\ pending_events' = Tail(pending_events)
    /\ nodePc' = "idle"
    /\ UNCHANGED <<idVars, mgrVars, transports, dialRet, listenerEvents, panicked>>
    /\ UNCHANGED negVars
    /\ UNCHANGED pollVars
    /\ UNCHANGED builder
    /\ UNCHANGED drvVars
    /\ UNCHANGED builder
    /\ UNCHANGED roundTrip
    /\ UNCHANGED pingVars

\* poll_next_event: the peer manager is ready; handle its event and loop
PollNextManager ==
    /\ panicked = "none"
    /\ pending_events = << >>
    /\ ManagerPollReady
    /\ pending_events' = IF panicked' = "none" /\ Len(peerOut') > Len(peerOut)
                         THEN HandlePeerEvent(pending_events, peerOut'[Len(peerOut')])
                         ELSE pending_events
    /\ nodePc' = "polling"
    /\ UNCHANGED <<idRet, transports, nodeOut, dialRet, listenerEvents>>
    /\ UNCHANGED negVars
    /\ UNCHANGED pollVars
    /\ UNCHANGED builder
    /\ UNCHANGED drvVars
    /\ UNCHANGED builder
    /\ UNCHANGED roundTrip
    /\ UNCHANGED pingVars

\* an incoming connection registered without its IncomingConnection event
PollNextIncomingUnannounced(t) ==
    /\ panicked = "none"
    /\ pending_events = << >>
    /\ ManagerPollPending
    /\ t \in transports
    /\ Len(conns) < MaxConn
    /\ AddPending("in", "Listener", "pending", "none")
    /\ pending_events' = pending_events
    /\ nodePc' = "polling"
    /\ UNCHANGED <<established, drivers, pending_peer_events, peerOut>>
    /\ UNCHANGED <<idRet, transports, nodeOut, dialRet, listenerEvents, panicked>>
    /\ UNCHANGED negVars
    /\ UNCHANGED pollVars
    /\ UNCHANGED builder
    /\ UNCHANGED drvVars
    /\ UNCHANGED builder
    /\ UNCHANGED roundTrip
    /\ UNCHANGED pingVars

\* poll_next_event: a transport reports Incoming; handle_transport_event_incoming
PollNextIncoming(t) ==
    /\ panicked = "none"
    /\ pending_events = << >>
    /\ ManagerPollPending
    /\ t \in transports
    /\ Len(conns) < MaxConn
    /\ AddPending("in", "Listener", "pending", "none")
    /\ pending_events' = Append(pending_events,
           NodeEvent("IncomingConnection", -1, NoPeer, Len(conns) + 1))
    /\ nodePc' = "polling"
    /\ UNCHANGED <<established, drivers, pending_peer_events, peerOut>>
    /\ UNCHANGED <<idRet, transports, nodeOut, dialRet, listenerEvents, panicked>>
    /\ UNCHANGED negVars
    /\ UNCHANGED pollVars
    /\ UNCHANGED builder
    /\ UNCHANGED drvVars
    /\ UNCHANGED builder
    /\ UNCHANGED roundTrip
    /\ UNCHANGED pingVars

\* poll_next_event: a transport reports a listener event
PollNextListener(t, type) ==
    /\ panicked = "none"
    /\ pending_events = << >>
    /\ ManagerPollPending
    /\ t \in transports
    /\ listenerEvents < MaxListenerEvents
    /\ listenerEvents' = listenerEvents + 1
    /\ pending_events' = Append(pending_events, NodeEvent(type, -1, NoPeer, 0))
    /\ nodePc' = "polling"
    /\ UNCHANGED <<idVars, mgrVars, transports, nodeOut, dialRet, panicked>>
    /\ UNCHANGED negVars
    /\ UNCHANGED pollVars
    /\ UNCHANGED builder
    /\ UNCHANGED drvVars
    /\ UNCHANGED builder
    /\ UNCHANGED roundTrip
    /\ UNCHANGED pingVars

\* poll_next_event: nothing is ready, the call returns Poll::Pending
PollNextPending ==
    /\ panicked = "none"
    /\ nodePc = "polling"
    /\ pending_events = << >>
    /\ ManagerPollPending
    /\ nodePc' = "idle"
    /\ UNCHANGED <<idVars, mgrVars, transports, pending_events, nodeOut, dialRet,
                   listenerEvents, panicked>>
    /\ UNCHANGED negVars
    /\ UNCHANGED pollVars
    /\ UNCHANGED builder
    /\ UNCHANGED drvVars
    /\ UNCHANGED builder
    /\ UNCHANGED roundTrip
    /\ UNCHANGED pingVars

(* --------------------------- StreamProtocol ---------------------------- *)
\* text is a sequence of one-character strings
Digits == <<"0", "1", "2", "3", "4", "5", "6", "7", "8", "9">>
IsDigit(ch) == \E i \in DOMAIN Digits : Digits[i] = ch
DigitVal(ch) == (CHOOSE i \in DOMAIN Digits : Digits[i] = ch) - 1

Positions(s, ch) == {i \in DOMAIN s : s[i] = ch}
Max(S) == CHOOSE x \in S : \A y \in S : y <= x
Min(S) == CHOOSE x \in S : \A y \in S : x <= y

RSplitAtFirst(s, ch) == IF Positions(s, ch) = {} THEN 0 ELSE Min(Positions(s, ch))

\* str::rsplit_once / str::split_once on a character: the index it splits at, 0 if absent
RSplitAt(s, ch) == IF Positions(s, ch) = {} THEN 0 ELSE Max(Positions(s, ch))
SplitAt(s, ch) == IF Positions(s, ch) = {} THEN 0 ELSE Min(Positions(s, ch))
Before(s, i) == SubSeq(s, 1, i - 1)
After(s, i) == SubSeq(s, i + 1, Len(s))

\* decimal numeral to number and back (u64 values of a semver::Version)
RECURSIVE NumParse(_)
NumParse(s) == IF s = << >> THEN 0 ELSE NumParse(Before(s, Len(s))) * 10 + DigitVal(s[Len(s)])

RECURSIVE NumFormat(_)
NumFormat(n) == IF n < 10 THEN <<Digits[n + 1]>> ELSE NumFormat(n \div 10) \o <<Digits[(n % 10) + 1]>>

\* a numeric identifier of a semver: digits only, not empty, no leading zero
IsNumeral(s) ==
    /\ s # << >>
    /\ \A i \in DOMAIN s : IsDigit(s[i])
    /\ (Len(s) > 1 => s[1] # "0")

\* semver::Version::parse on text without pre-release or build part: MAJOR.MINOR.PATCH
VersionParse(s) ==
    LET d1 == SplitAt(s, ".")
        rest == After(s, d1)
        d2 == SplitAt(rest, ".")
        major == Before(s, d1)
        minor == Before(rest, d2)
        patch == After(rest, d2)
    IN IF d1 = 0 \/ d2 = 0 \/ ~IsNumeral(major) \/ ~IsNumeral(minor) \/ ~IsNumeral(patch)
       THEN [ok |-> FALSE, major |-> 0, minor |-> 0, patch |-> 0]
       ELSE [ok |-> TRUE, major |-> NumParse(major), minor |-> NumParse(minor),
             patch |-> NumParse(patch)]

\* Display for semver::Version
VersionDisplay(v) ==
    NumFormat(v.major) \o <<".">> \o NumFormat(v.minor) \o <<".">> \o NumFormat(v.patch)

Version(major, minor, patch) == [major |-> major, minor |-> minor, patch |-> patch]

\* Display for StreamProtocol: namespace/name@version
ProtocolDisplay(p) == p.namespace \o <<"/">> \o p.name \o <<"@">> \o VersionDisplay(p.version)

\* StreamProtocol::new
StreamProtocolNew(namespace, name, version) ==
    LET p == [namespace |-> namespace, name |-> name, version |-> version]
    IN [full |-> ProtocolDisplay(p), namespace |-> namespace, name |-> name, version |-> version]

\* StreamProtocol::from_str: split at the last '@', then the prefix at the first '/'
FromStr(s) ==
    LET at == RSplitAt(s, "@")
        path == Before(s, at)
        version_str == After(s, at)
        slash == SplitAt(path, "/")
        v == VersionParse(version_str)
    IN IF at = 0 THEN [err |-> "MissingAt"]
       ELSE IF slash = 0 THEN [err |-> "MissingSlash"]
       ELSE IF ~v.ok THEN [err |-> "InvalidVersion"]
       ELSE [err |-> "none",
             value |-> [full |-> s, namespace |-> Before(path, slash),
                        name |-> After(path, slash),
                        version |-> Version(v.major, v.minor, v.patch)]]

(* ----------------------------- negotiator ------------------------------ *)
\* number of protocols in a negotiator's local list
MaxProtocols == 2
\* number of frames a foreign remote sends to a negotiator
MaxRemoteFrames == 1

Sides == {"out", "in"}
Other(side) == IF side = "out" THEN "in" ELSE "out"

ProtocolUniverse ==
    {StreamProtocolNew(<<"a">>, <<"x">>, Version(1, 0, 0)),
     StreamProtocolNew(<<"b">>, <<"x">>, Version(0, 1, 0))}

\* StreamProtocols: the lists a handler can advertise
ProtocolLists ==
    {l \in UNION {[1..k -> ProtocolUniverse] : k \in 0..MaxProtocols} :
        \A i, j \in DOMAIN l : i # j => l[i] # l[j]}

\* serde_json::to_vec(&StreamProtocols): a JSON array of the textual forms
Encode(protocols) ==
    [kind |-> "array", items |-> [i \in DOMAIN protocols |-> ProtocolDisplay(protocols[i])]]

\* serde_json::from_slice::<Vec<StreamProtocol>>: fails unless the frame is a JSON
\* array of strings that all parse as StreamProtocol
Decode(frame) ==
    IF frame.kind # "array" \/ \E i \in DOMAIN frame.items : FromStr(frame.items[i]).err # "none"
    THEN [ok |-> FALSE, list |-> << >>]
    ELSE [ok |-> TRUE, list |-> [i \in DOMAIN frame.items |-> FromStr(frame.items[i]).value]]

\* frames a remote that is not this code may send: well-formed lists, bytes that
\* are not JSON, and a JSON array holding a string that is no protocol identifier
GarbageFrame == [kind |-> "garbage", items |-> << >>]
BadItemFrame == [kind |-> "array", items |-> <<(<<"a", "/", "x">>)>>]
RemoteFrameSet == {Encode(l) : l \in ProtocolLists} \cup {GarbageFrame, BadItemFrame}

\* what the substream answers to the I/O calls of one poll
IoChoices ==
    [ready : {"ok", "pending", "err"}, send : {"ok", "err"},
     flush : {"ok", "pending", "err"}, next : {"ok", "err"}]

None == [some |-> FALSE, list |-> << >>]
Some(l) == [some |-> TRUE, list |-> l]

\* constructors that put both ends in the receiving state
NegNewAllReceive(side, protocols) ==
    [state |-> "RecvProtocol",
     protocols |-> protocols, received |-> None, result |-> "none",
     timeout |-> FALSE, buf |-> << >>, stream |-> "held"]

\* OutboundStream::new / InboundStream::new
NegNew(side, protocols) ==
    [state |-> IF side = "out" THEN "SendProtocol" ELSE "RecvProtocol",
     protocols |-> protocols, received |-> None, result |-> "none",
     timeout |-> FALSE, buf |-> << >>, stream |-> "held"]

\* the output of a completed negotiator, Result<S, NegotiatorStreamError>: the
\* substream on success and no protocol in either case (the set of selected
\* protocols is empty)
NoProtocol == {}
NegOutput(n) == [stream |-> n.stream = "returned", protocol |-> NoProtocol]

\* poll returns Ready: the state was replaced by Done and io went with the result
Finish(c, result, stream) ==
    [c EXCEPT !.n.state = "Done", !.n.result = result, !.n.stream = stream, !.ret = TRUE]

Suspend(c) == [c EXCEPT !.ret = TRUE]

\* the SendProtocol arm: poll_ready, serialise, start_send
SendProtocolArm(c, io) ==
    IF io.ready = "pending" THEN Suspend(c)
    ELSE IF io.ready = "err" \/ io.send = "err" THEN Finish(c, "IoError", "dropped")
    ELSE [c EXCEPT !.n.buf = Append(@, Encode(c.n.protocols)), !.n.state = "Flush"]

FlushWireSkipped(c) == c

\* poll_flush: the buffered frames go out on the wire
FlushWire(c) == [c EXCEPT !.wire = @ \o c.n.buf, !.n.buf = << >>]

RecvOutcomeCloseIsError(c, io) ==
    IF io.next = "err" \/ (c.rxq = << >> /\ c.closed) THEN [kind |-> "IoError", list |-> << >>]
    ELSE IF c.rxq = << >> THEN [kind |-> "Pending", list |-> << >>]
    ELSE IF ~Decode(Head(c.rxq)).ok THEN [kind |-> "panic", list |-> << >>]
    ELSE [kind |-> "msg", list |-> Decode(Head(c.rxq)).list]

\* the RecvProtocol arm up to the decoded list: poll_next, then from_slice(..).unwrap()
RecvOutcome(c, io) ==
    IF io.next = "err" THEN [kind |-> "IoError", list |-> << >>]
    ELSE IF c.rxq = << >>
         THEN [kind |-> IF c.closed THEN "NegotiationFailed" ELSE "Pending", list |-> << >>]
    ELSE IF ~Decode(Head(c.rxq)).ok THEN [kind |-> "panic", list |-> << >>]
    ELSE [kind |-> "msg", list |-> Decode(Head(c.rxq)).list]

\* the frame that failed to decode was taken out of the stream by poll_next
RecvConsume(c, r) == IF r.kind = "panic" THEN [c EXCEPT !.rxq = Tail(@)] ELSE c

\* one turn of the loop in OutboundStream::poll
OutboundArm(c, io) ==
    IF c.n.state = "SendProtocol" THEN SendProtocolArm(c, io)
    ELSE IF c.n.state = "Flush"
         THEN IF io.flush = "err" THEN Finish(c, "IoError", "dropped")
              ELSE IF io.flush = "pending" THEN Suspend(c)
              ELSE [FlushWire(c) EXCEPT !.n.state = "RecvProtocol"]
    ELSE IF c.n.state = "RecvProtocol"
         THEN LET r == RecvOutcome(c, io)
              IN IF r.kind = "Pending" THEN Suspend(c)
                 ELSE IF r.kind = "msg"
                      THEN Finish([c EXCEPT !.rxq = Tail(@), !.n.received = Some(r.list)],
                                  "Ok", "returned")
                 ELSE Finish(RecvConsume(c, r), r.kind, "dropped")
    ELSE Finish(c, "panic", c.n.stream)

\* one turn of the loop in InboundStream::poll
InboundArm(c, io) ==
    IF c.n.state = "RecvProtocol"
    THEN LET r == RecvOutcome(c, io)
         IN IF r.kind = "Pending" THEN Suspend(c)
            ELSE IF r.kind = "msg"
                 THEN [c EXCEPT !.rxq = Tail(@), !.n.received = Some(r.list),
                                !.n.state = "SendProtocol"]
            ELSE Finish(RecvConsume(c, r), r.kind, "dropped")
    ELSE IF c.n.state = "SendProtocol" THEN SendProtocolArm(c, io)
    ELSE IF c.n.state = "Flush"
         THEN IF io.flush = "err" THEN Finish(c, "IoError", "dropped")
              ELSE IF io.flush = "pending" THEN Suspend(c)
              ELSE IF c.n.received.some THEN Finish(FlushWire(c), "Ok", "returned")
              ELSE [FlushWire(c) EXCEPT !.n.state = "RecvProtocol"]
    ELSE Finish(c, "panic", c.n.stream)

\* the loop of poll: arms run until one returns
RECURSIVE PollLoop(_, _, _)
PollLoop(side, c, io) ==
    IF c.ret THEN c
    ELSE PollLoop(side, IF side = "out" THEN OutboundArm(c, io) ELSE InboundArm(c, io), io)

NegPollResultTimerIgnored(side, c, io) == PollLoop(side, c, io)

\* OutboundStream::poll / InboundStream::poll: the timer is looked at first
NegPollResult(side, c, io) ==
    IF c.n.timeout THEN [c EXCEPT !.n.result = "Timeout", !.ret = TRUE]
    ELSE PollLoop(side, c, io)

\* a remote end that dropped its substream is seen as end of stream once its
\* frames in transit have arrived
NegPoll(side, io) ==
    /\ side \in negActive
    /\ neg[side].result = "none"
    /\ LET c == NegPollResult(side,
                    [n |-> neg[side], rxq |-> rx[side], wire |-> wire[side],
                     closed |-> rxClosed[side], ret |-> FALSE], io)
       IN /\ neg' = [neg EXCEPT ![side] = c.n]
          /\ rx' = [rx EXCEPT ![side] = c.rxq]
          /\ wire' = [wire EXCEPT ![side] = c.wire]
    /\ UNCHANGED <<negActive, rxClosed, remoteFrames>>
    /\ UNCHANGED <<idVars, mgrVars, nodeVars, panicked>>
    /\ UNCHANGED drvVars
    /\ UNCHANGED pollVars
    /\ UNCHANGED builder
    /\ UNCHANGED roundTrip
    /\ UNCHANGED pingVars

\* the Delay of 15 seconds elapses
NegTimerFire(side) ==
    /\ side \in negActive
    /\ neg[side].result = "none"
    /\ ~neg[side].timeout
    /\ neg' = [neg EXCEPT ![side].timeout = TRUE]
    /\ UNCHANGED <<negActive, rx, rxClosed, wire, remoteFrames>>
    /\ UNCHANGED <<idVars, mgrVars, nodeVars, panicked>>
    /\ UNCHANGED drvVars
    /\ UNCHANGED pollVars
    /\ UNCHANGED builder
    /\ UNCHANGED roundTrip
    /\ UNCHANGED pingVars

\* a remote that is not this code sends a frame
RemoteSend(side, frame) ==
    /\ side \in negActive
    /\ ~rxClosed[side]
    /\ remoteFrames[side] < MaxRemoteFrames
    /\ remoteFrames' = [remoteFrames EXCEPT ![side] = @ + 1]
    /\ rx' = [rx EXCEPT ![side] = Append(@, frame)]
    /\ UNCHANGED <<neg, negActive, rxClosed, wire>>
    /\ UNCHANGED <<idVars, mgrVars, nodeVars, panicked>>
    /\ UNCHANGED drvVars
    /\ UNCHANGED pollVars
    /\ UNCHANGED builder
    /\ UNCHANGED roundTrip
    /\ UNCHANGED pingVars

\* the remote closes the substream
RemoteClose(side) ==
    /\ side \in negActive
    /\ ~rxClosed[side]
    /\ rxClosed' = [rxClosed EXCEPT ![side] = TRUE]
    /\ UNCHANGED <<neg, negActive, rx, wire, remoteFrames>>
    /\ UNCHANGED <<idVars, mgrVars, nodeVars, panicked>>
    /\ UNCHANGED drvVars
    /\ UNCHANGED pollVars
    /\ UNCHANGED builder
    /\ UNCHANGED roundTrip
    /\ UNCHANGED pingVars

\* two negotiators on one substream: a flushed frame arrives at the other end
Deliver(side) ==
    /\ wire[Other(side)] # << >>
    /\ rx' = [rx EXCEPT ![side] = Append(@, Head(wire[Other(side)]))]
    /\ wire' = [wire EXCEPT ![Other(side)] = Tail(@)]
    /\ UNCHANGED <<neg, negActive, rxClosed, remoteFrames>>
    /\ UNCHANGED <<idVars, mgrVars, nodeVars, panicked>>
    /\ UNCHANGED drvVars
    /\ UNCHANGED pollVars
    /\ UNCHANGED builder
    /\ UNCHANGED roundTrip
    /\ UNCHANGED pingVars

\* two negotiators on one substream: the other end failed and dropped the substream
PeerDropped(side) ==
    /\ neg[Other(side)].stream = "dropped"
    /\ wire[Other(side)] = << >>
    /\ ~rxClosed[side]
    /\ rxClosed' = [rxClosed EXCEPT ![side] = TRUE]
    /\ UNCHANGED <<neg, negActive, rx, wire, remoteFrames>>
    /\ UNCHANGED <<idVars, mgrVars, nodeVars, panicked>>
    /\ UNCHANGED drvVars
    /\ UNCHANGED pollVars
    /\ UNCHANGED builder
    /\ UNCHANGED roundTrip
    /\ UNCHANGED pingVars

(* -------------------------- connection driver -------------------------- *)
\* NotifyProtocol commands sent to one driver
MaxCommands == 2
\* events the handler of one connection emits, residual ones included
MaxHandlerEvents == 3
\* buffer of the channels a caller of new_established_connection creates
ChannelBuffer == 1
\* buffer of the channels spawn_connection creates
SpawnBuffer == 16

\* futures mpsc::channel(buffer): bounded by the buffer plus one slot per sender
Channel(buffer) == [q |-> << >>, buffer |-> buffer, senders |-> 1, receiver |-> "held"]
Capacity(ch) == ch.buffer + ch.senders

TrySendFront(ch, msg) ==
    IF ch.receiver # "held" THEN [ch |-> ch, outcome |-> "disconnected"]
    ELSE IF Len(ch.q) >= Capacity(ch) THEN [ch |-> ch, outcome |-> "full"]
    ELSE [ch |-> [ch EXCEPT !.q = <<msg>> \o @], outcome |-> "sent"]

\* Sender::send: an error when the receiver is closed or gone, a wait while the
\* channel is full, the message queued otherwise
TrySend(ch, msg) ==
    IF ch.receiver # "held" THEN [ch |-> ch, outcome |-> "disconnected"]
    ELSE IF Len(ch.q) >= Capacity(ch) THEN [ch |-> ch, outcome |-> "full"]
    ELSE [ch |-> [ch EXCEPT !.q = Append(@, msg)], outcome |-> "sent"]

\* Receiver::next is Ready: a message is queued, or no message can come any more
NextReady(ch) == ch.q # << >> \/ ch.senders = 0 \/ ch.receiver # "held"

NoError == "None"
Command(type, event) == [type |-> type, event |-> event]
EstablishedConnectionEvent(type, event, error) == [type |-> type, event |-> event, error |-> error]

NoDriver ==
    [pc |-> "none", via |-> "none", handler |-> << >>, muxer |-> "open",
     error |-> NoError, residual |-> << >>, sending |-> << >>]
EmptyLog ==
    [commands |-> 0, closeSent |-> FALSE, emitted |-> 0, sent |-> << >>, lost |-> << >>,
     received |-> << >>, steps |-> << >>, trigger |-> "none", muxerResult |-> "none"]

\* the outcome of one send of the driver, as the driver's peers see it
LogSend(log, r, ev) ==
    IF r.outcome = "sent" THEN [log EXCEPT !.sent = Append(@, ev)]
    ELSE [log EXCEPT !.lost = Append(@, ev)]

HandleCloseErrorDropped(cc, error) ==
    \E r \in 0..(MaxHandlerEvents - drvLog.emitted) :
        /\ command_channel' = [cc EXCEPT !.receiver = "closed"]
        /\ driver' = [driver EXCEPT !.pc = "send_all", !.error = NoError,
                          !.residual = [i \in 1..r |-> drvLog.emitted + i]]
        /\ drvLog' = [drvLog EXCEPT !.emitted = @ + r, !.steps = Append(@, "close_inbox"),
                          !.trigger = IF error = NoError THEN "command" ELSE "error"]
        /\ UNCHANGED event_channel

\* handle_close up to send_all: the inbox is closed and Connection::close hands
\* out the handler's residual events and the future that closes the muxer; an
\* error stands in the place of awaiting that future
HandleClose(cc, error) ==
    \E r \in 0..(MaxHandlerEvents - drvLog.emitted) :
        /\ command_channel' = [cc EXCEPT !.receiver = "closed"]
        /\ driver' = [driver EXCEPT !.pc = "send_all", !.error = error,
                          !.residual = [i \in 1..r |-> drvLog.emitted + i]]
        /\ drvLog' = [drvLog EXCEPT !.emitted = @ + r, !.steps = Append(@, "close_inbox"),
                          !.trigger = IF error = NoError THEN "command" ELSE "error"]
        /\ UNCHANGED event_channel

\* new_established_connection: the left arm of select, command_receiver.next()
DrvPollCommand ==
    /\ driver.pc = "select"
    /\ NextReady(command_channel)
    /\ IF command_channel.q = << >>
       THEN /\ driver' = [driver EXCEPT !.pc = "done", !.muxer = "dropped"]
            /\ UNCHANGED <<command_channel, event_channel, drvLog>>
       ELSE LET cmd == Head(command_channel.q)
                cc == [command_channel EXCEPT !.q = Tail(@)]
            IN IF cmd.type = "NotifyProtocol"
               THEN /\ driver' = [driver EXCEPT !.handler = Append(@, cmd.event)]
                    /\ command_channel' = cc
                    /\ UNCHANGED <<event_channel, drvLog>>
               ELSE HandleClose(cc, NoError)
    /\ UNCHANGED <<idVars, mgrVars, nodeVars, panicked>>
    /\ UNCHANGED negVars
    /\ UNCHANGED pollVars
    /\ UNCHANGED builder
    /\ UNCHANGED roundTrip
    /\ UNCHANGED pingVars

\* new_established_connection: the right arm of select, Connection::poll, taken
\* when no command is ready; the event is sent at once when the outbox has room
DrvPollConnection(kind) ==
    /\ driver.pc = "select"
    /\ ~NextReady(command_channel)
    /\ IF kind = "Err"
       THEN HandleClose(command_channel, "ConnectionError")
       ELSE /\ drvLog.emitted < MaxHandlerEvents
            /\ LET ev == EstablishedConnectionEvent(kind, drvLog.emitted + 1, NoError)
                   r == TrySend(event_channel, ev)
               IN IF r.outcome = "full"
                  THEN /\ driver' = [driver EXCEPT !.pc = "send", !.sending = <<ev>>]
                       /\ drvLog' = [drvLog EXCEPT !.emitted = @ + 1]
                       /\ UNCHANGED event_channel
                  ELSE /\ event_channel' = r.ch
                       /\ drvLog' = [LogSend(drvLog, r, ev) EXCEPT !.emitted = @ + 1]
                       /\ UNCHANGED driver
            /\ UNCHANGED command_channel
    /\ UNCHANGED <<idVars, mgrVars, nodeVars, panicked>>
    /\ UNCHANGED negVars
    /\ UNCHANGED pollVars
    /\ UNCHANGED builder
    /\ UNCHANGED roundTrip
    /\ UNCHANGED pingVars

\* event_sender.send(..).await resumes once the outbox has room
DrvSend ==
    /\ driver.pc = "send"
    /\ LET ev == Head(driver.sending)
           r == TrySend(event_channel, ev)
       IN /\ r.outcome # "full"
          /\ event_channel' = r.ch
          /\ drvLog' = LogSend(drvLog, r, ev)
          /\ driver' = [driver EXCEPT !.pc = "select", !.sending = << >>]
    /\ UNCHANGED command_channel
    /\ UNCHANGED <<idVars, mgrVars, nodeVars, panicked>>
    /\ UNCHANGED negVars
    /\ UNCHANGED pollVars
    /\ UNCHANGED builder
    /\ UNCHANGED roundTrip
    /\ UNCHANGED pingVars

\* handle_close: event_sender.send_all(remaining_events), one event per step;
\* a send error ends send_all with the events that are left unsent
DrvSendAll ==
    /\ driver.pc = "send_all"
    /\ IF driver.residual = << >>
       THEN /\ driver' = [driver EXCEPT
                   !.pc = IF driver.error = NoError THEN "closing_muxer" ELSE "send_closed"]
            /\ drvLog' = [drvLog EXCEPT !.steps = Append(@, "forward_residual")]
            /\ UNCHANGED event_channel
       ELSE LET ev == EstablishedConnectionEvent("Notify", Head(driver.residual), NoError)
                r == TrySend(event_channel, ev)
            IN /\ r.outcome # "full"
               /\ event_channel' = r.ch
               /\ IF r.outcome = "sent"
                  THEN /\ driver' = [driver EXCEPT !.residual = Tail(@)]
                       /\ drvLog' = LogSend(drvLog, r, ev)
                  ELSE /\ driver' = [driver EXCEPT !.residual = << >>]
                       /\ drvLog' = [drvLog EXCEPT !.lost = @ \o
                              [i \in DOMAIN driver.residual |->
                                  EstablishedConnectionEvent("Notify", driver.residual[i], NoError)]]
    /\ UNCHANGED command_channel
    /\ UNCHANGED <<idVars, mgrVars, nodeVars, panicked>>
    /\ UNCHANGED negVars
    /\ UNCHANGED pollVars
    /\ UNCHANGED builder
    /\ UNCHANGED roundTrip
    /\ UNCHANGED pingVars

\* handle_close: closing_muxer.await completes, reached only without an error
DrvMuxerClosed(res) ==
    /\ driver.pc = "closing_muxer"
    /\ driver' = [driver EXCEPT !.pc = "send_closed", !.muxer = "closed",
                      !.error = IF res = "ok" THEN NoError ELSE "IO"]
    /\ drvLog' = [drvLog EXCEPT !.steps = Append(@, "close_muxer"), !.muxerResult = res]
    /\ UNCHANGED <<command_channel, event_channel>>
    /\ UNCHANGED <<idVars, mgrVars, nodeVars, panicked>>
    /\ UNCHANGED negVars
    /\ UNCHANGED pollVars
    /\ UNCHANGED builder
    /\ UNCHANGED roundTrip
    /\ UNCHANGED pingVars

\* handle_close: the final send of Closed, after which the task returns and
\* drops what it still owns
DrvSendClosed ==
    /\ driver.pc = "send_closed"
    /\ LET ev == EstablishedConnectionEvent("Closed", 0, driver.error)
           r == TrySend(event_channel, ev)
       IN /\ r.outcome # "full"
          /\ event_channel' = r.ch
          /\ drvLog' = [LogSend(drvLog, r, ev) EXCEPT !.steps = Append(@, "emit_closed")]
    /\ driver' = [driver EXCEPT !.pc = "done",
                      !.muxer = IF driver.muxer = "closed" THEN "closed" ELSE "dropped"]
    /\ UNCHANGED command_channel
    /\ UNCHANGED <<idVars, mgrVars, nodeVars, panicked>>
    /\ UNCHANGED negVars
    /\ UNCHANGED pollVars
    /\ UNCHANGED builder
    /\ UNCHANGED roundTrip
    /\ UNCHANGED pingVars

\* the holder of the command sender sends NotifyProtocol or Close
CmdSend(type) ==
    /\ driver.via = "caller"
    /\ command_channel.senders > 0
    /\ IF type = "NotifyProtocol" THEN drvLog.commands < MaxCommands ELSE ~drvLog.closeSent
    /\ LET r == TrySend(command_channel, Command(type, drvLog.commands + 1))
       IN /\ r.outcome # "full"
          /\ command_channel' = r.ch
    /\ drvLog' = IF type = "NotifyProtocol" THEN [drvLog EXCEPT !.commands = @ + 1]
                 ELSE [drvLog EXCEPT !.closeSent = TRUE]
    /\ UNCHANGED <<driver, event_channel>>
    /\ UNCHANGED <<idVars, mgrVars, nodeVars, panicked>>
    /\ UNCHANGED negVars
    /\ UNCHANGED pollVars
    /\ UNCHANGED builder
    /\ UNCHANGED roundTrip
    /\ UNCHANGED pingVars

\* the holder of the command sender drops it
CmdSenderDrop ==
    /\ driver.via = "caller"
    /\ command_channel.senders > 0
    /\ command_channel' = [command_channel EXCEPT !.senders = 0]
    /\ UNCHANGED <<driver, event_channel, drvLog>>
    /\ UNCHANGED <<idVars, mgrVars, nodeVars, panicked>>
    /\ UNCHANGED negVars
    /\ UNCHANGED pollVars
    /\ UNCHANGED builder
    /\ UNCHANGED roundTrip
    /\ UNCHANGED pingVars

\* the holder of the event receiver takes the next event
EvRecv ==
    /\ event_channel.receiver = "held"
    /\ event_channel.q # << >>
    /\ event_channel' = [event_channel EXCEPT !.q = Tail(@)]
    /\ drvLog' = [drvLog EXCEPT !.received = Append(@, Head(event_channel.q))]
    /\ UNCHANGED <<driver, command_channel>>
    /\ UNCHANGED <<idVars, mgrVars, nodeVars, panicked>>
    /\ UNCHANGED negVars
    /\ UNCHANGED pollVars
    /\ UNCHANGED builder
    /\ UNCHANGED roundTrip
    /\ UNCHANGED pingVars

\* Manager::spawn_connection with its driver: command_sender stays in
\* established, event_receiver is a local that is dropped on return
DrvSpawnConnection(peer_id) ==
    /\ driver.pc = "none"
    /\ SpawnConnection(0, peer_id, "Dialer", 1)
    /\ driver' = [NoDriver EXCEPT !.pc = "select", !.via = "spawn_connection"]
    /\ command_channel' = Channel(SpawnBuffer)
    /\ event_channel' = [Channel(SpawnBuffer) EXCEPT !.receiver = "dropped"]
    /\ UNCHANGED drvLog
    /\ UNCHANGED <<conns, pending, pending_peer_events, peerOut>>
    /\ UNCHANGED <<idVars, nodeVars, panicked>>
    /\ UNCHANGED negVars
    /\ UNCHANGED pollVars
    /\ UNCHANGED builder
    /\ UNCHANGED roundTrip
    /\ UNCHANGED pingVars

\* new_established_connection called with channels whose other ends the caller keeps
DrvStart ==
    /\ driver.pc = "none"
    /\ driver' = [NoDriver EXCEPT !.pc = "select", !.via = "caller"]
    /\ command_channel' = Channel(ChannelBuffer)
    /\ event_channel' = Channel(ChannelBuffer)
    /\ UNCHANGED drvLog
    /\ UNCHANGED <<idVars, mgrVars, nodeVars, panicked>>
    /\ UNCHANGED negVars
    /\ UNCHANGED pollVars
    /\ UNCHANGED builder
    /\ UNCHANGED roundTrip
    /\ UNCHANGED pingVars

(* ------------------- poll_next_event as a scheduler --------------------- *)
\* transport::Protocol, the key of Node::transports
Protocol == {"WebTransport", "WebRtc", "Quic", "Tcp"}

\* the order in which transports.values_mut() visits the map; it stays the same
\* while the map is not modified
TransportOrder == <<"WebTransport", "WebRtc", "Quic", "Tcp">>

\* the first transport in iteration order whose poll returns Ready
FirstReady(ready) ==
    LET idx == {i \in DOMAIN TransportOrder : ready[TransportOrder[i]] # "none"}
    IN IF idx = {} THEN "none" ELSE TransportOrder[Min(idx)]

\* Poll<NodeEvent> as returned by poll_next_event, with the source of the event
PollResult(poll, source, type) ==
    [poll |-> poll, source |-> source, event |-> NodeEvent(type, -1, NoPeer, 0)]

\* a listener of transport t has an event for its next poll
TransportEvent(t, type) ==
    /\ transportReady[t] = "none"
    /\ transportReady' = [transportReady EXCEPT ![t] = type]
    /\ UNCHANGED returned
    /\ UNCHANGED <<idVars, mgrVars, nodeVars, panicked>>
    /\ UNCHANGED negVars
    /\ UNCHANGED drvVars
    /\ UNCHANGED builder
    /\ UNCHANGED roundTrip
    /\ UNCHANGED pingVars

\* one call of Node::poll_next_event with nothing queued and the peer manager
\* Pending: the transports are polled in iteration order, the event of the
\* first that is Ready is queued by handle_transport_event, and the next turn
\* of 'outer pops and returns it
PollNextEvent ==
    /\ panicked = "none"
    /\ pending_events = << >>
    /\ ManagerPollPending
    /\ LET t == FirstReady(transportReady)
       IN IF t = "none"
          THEN /\ returned' = PollResult("Pending", "none", "none")
               /\ UNCHANGED transportReady
          ELSE /\ returned' = PollResult("Ready", t, transportReady[t])
               /\ transportReady' = [transportReady EXCEPT ![t] = "none"]
    /\ UNCHANGED <<idVars, mgrVars, nodeVars, panicked>>
    /\ UNCHANGED negVars
    /\ UNCHANGED drvVars
    /\ UNCHANGED builder
    /\ UNCHANGED roundTrip
    /\ UNCHANGED pingVars

(* ------------------------------ builder -------------------------------- *)
\* calls of with_transport on one builder
MaxTransportCalls == 3

\* Builder::new
BuilderNew == [step |-> "BuildingStep", transports |-> EmptyMap, log |-> << >>]

\* an insertion that overwrites the transport registered for the key
EntryReplace(map, key, transport) ==
    [ret |-> "Ok", transports |-> MapInsert(map, key, transport)]

\* self.transports.entry(key): Occupied is an error, Vacant inserts
Entry(map, key, transport) ==
    IF key \in DOMAIN map
    THEN [ret |-> "DuplicateTransport", transports |-> map]
    ELSE [ret |-> "Ok", transports |-> MapInsert(map, key, transport)]

\* Builder::with_transport(constructor): the transport built declares key; the
\* builder is consumed and comes back only inside Ok
WithTransport(key) ==
    /\ builder.step = "BuildingStep"
    /\ Len(builder.log) < MaxTransportCalls
    /\ LET transport == Len(builder.log) + 1
           e == Entry(builder.transports, key, transport)
       IN builder' = [step |-> IF e.ret = "Ok" THEN "BuildingStep" ELSE "Dropped",
                      transports |-> e.transports,
                      log |-> Append(builder.log, [key |-> key, ret |-> e.ret])]
    /\ UNCHANGED <<idVars, mgrVars, nodeVars, panicked>>
    /\ UNCHANGED negVars
    /\ UNCHANGED drvVars
    /\ UNCHANGED pollVars
    /\ UNCHANGED roundTrip
    /\ UNCHANGED pingVars

\* Builder::with_protocol(constructor): try_into_peer_protocol may fail
WithProtocol(res) ==
    /\ builder.step = "BuildingStep"
    /\ builder' = [builder EXCEPT !.step = IF res = "Ok" THEN "BuildableStep" ELSE "Dropped",
                                  !.log = Append(@, [key |-> "with_protocol", ret |-> res])]
    /\ UNCHANGED <<idVars, mgrVars, nodeVars, panicked>>
    /\ UNCHANGED negVars
    /\ UNCHANGED drvVars
    /\ UNCHANGED pollVars
    /\ UNCHANGED roundTrip
    /\ UNCHANGED pingVars

\* Builder::build: Node::new takes the transports
Build ==
    /\ builder.step = "BuildableStep"
    /\ builder' = [builder EXCEPT !.step = "Built"]
    /\ transports' = DOMAIN builder.transports
    /\ UNCHANGED <<pending_events, nodeOut, nodePc, dialRet, listenerEvents>>
    /\ UNCHANGED <<idVars, mgrVars, panicked>>
    /\ UNCHANGED negVars
    /\ UNCHANGED drvVars
    /\ UNCHANGED pollVars
    /\ UNCHANGED roundTrip
    /\ UNCHANGED pingVars

(* ----------------------------- ping handler ----------------------------- *)
\* times the interval Delay of one handler elapses
MaxIntervals == 2
\* events the connection delivers to one handler for inbound substreams
MaxInbound == 1
\* pings the remote sends on one inbound substream
MaxRemotePings == 1
\* length of a ping payload
PING_SIZE == 32

\* rng().sample(StandardUniform): payloads that differ in their last byte
Payload(last) == [i \in 1..PING_SIZE |-> IF i = PING_SIZE THEN last ELSE 0]
Payloads == {Payload(b) : b \in {0, 1}}
Flip(payload) == [payload EXCEPT ![PING_SIZE] = 1 - @]

\* a negotiated substream as its local end sees it: bytes written and not
\* flushed, bytes flushed to the remote, bytes that arrived, the pings the
\* remote has written in all, and whether the remote closed
NewStream(id) ==
    [id |-> id, wbuf |-> << >>, wire |-> << >>, rx |-> << >>, sent |-> << >>, closed |-> FALSE]
NoStream == NewStream(0)

\* what a substream answers to the I/O calls of one poll: every call succeeds,
\* or one of them fails or has to wait
IoOk == [write |-> "ok", flush |-> "ok", read |-> "ok"]
PingIo ==
    {IoOk, [IoOk EXCEPT !.write = "err"], [IoOk EXCEPT !.flush = "pending"],
     [IoOk EXCEPT !.flush = "err"], [IoOk EXCEPT !.read = "err"]}

\* ping::Error; ping names the outbound ping the error belongs to, 0 if none
Error(kind, ping) == [kind |-> kind, ping |-> ping]

\* ProtocolHandlerEvent returned by Handler::poll
NotifyProtocol(result, ping) == [type |-> "NotifyProtocol", result |-> result, ping |-> ping]
OutboundSubstreamRequest == [type |-> "OutboundSubstreamRequest", result |-> "none", ping |-> 0]
PollPending == [type |-> "Pending", result |-> "none", ping |-> 0]
NoReturn == [type |-> "none", result |-> "none", ping |-> 0]

\* PingFuture: the send_ping wrapper with its inner future and its Delay
NoFuture == [stage |-> "none", payload |-> << >>, delay |-> "none", ping |-> 0]
NewPingFuture == [NoFuture EXCEPT !.stage = "new"]
\* PongFuture: recv_ping
NoPong == [stage |-> "none", payload |-> << >>]
NewPong == [stage |-> "read", payload |-> << >>]

\* Option<OutboundState>
Outbound(kind, stream, fut) == [kind |-> kind, stream |-> stream, fut |-> fut]
NoOutbound == Outbound("None", 0, NoFuture)
OpenStream == Outbound("OpenStream", 0, NoFuture)
Idle(stream) == Outbound("Idle", stream, NoFuture)
Ping(stream) == Outbound("Ping", stream, NewPingFuture)

\* Config: the ping timeout in milliseconds; Config::new sets 20 s
Config(timeout) == [timeout |-> timeout]
ConfigNew == Config(20000)
\* the durations given to Config::with_timeout
Timeouts == {10, 20000}

\* the value send_ping puts in Error::Timeout when the ping timed out after timeout
TimeoutValue(timeout) == 10

\* Handler::new
HandlerNew ==
    [config |-> ConfigNew, state |-> "Active", reported |-> FALSE, interval |-> "waiting",
     outbound |-> NoOutbound, pong |-> NoPong, pending_errors |-> << >>]

EmptyPingLog ==
    [out |-> << >>, pings |-> << >>, intervals |-> 0, inbound |-> 0, remotePings |-> 0,
     streams |-> 0, requested |-> 0, failed |-> 0]

PayloadEqualFirstByte(recv_payload, payload) == recv_payload[1] = payload[1]

\* recv_payload == payload
PayloadEqual(recv_payload, payload) == recv_payload = payload

\* read_exact of PING_SIZE bytes: the bytes, an error, or a wait for more bytes
ReadExact(s, io) ==
    IF io.read = "err" THEN [res |-> "Io(Other)", bytes |-> << >>, s |-> s]
    ELSE IF Len(s.rx) >= PING_SIZE
         THEN [res |-> "Ok", bytes |-> SubSeq(s.rx, 1, PING_SIZE),
               s |-> [s EXCEPT !.rx = SubSeq(@, PING_SIZE + 1, Len(@))]]
    ELSE IF s.closed THEN [res |-> "Io(UnexpectedEof)", bytes |-> << >>, s |-> s]
    ELSE [res |-> "Pending", bytes |-> << >>, s |-> s]

\* protocol::send_ping, one step of the async body; c holds the future, the
\* substream, the result once there is one and the echo that was read
ProtocolSendPingStep(c, io) ==
    IF c.fut.stage = "write"
    THEN IF io.write = "err" THEN [c EXCEPT !.res = "Io(Other)"]
         ELSE [c EXCEPT !.s.wbuf = @ \o c.fut.payload, !.fut.stage = "flush"]
    ELSE IF c.fut.stage = "flush"
         THEN IF io.flush = "err" THEN [c EXCEPT !.res = "Io(Other)"]
              ELSE IF io.flush = "pending" THEN [c EXCEPT !.res = "Pending"]
              ELSE [c EXCEPT !.s.wire = @ \o c.s.wbuf, !.s.wbuf = << >>, !.fut.stage = "read"]
    ELSE LET r == ReadExact(c.s, io)
         IN IF r.res # "Ok" THEN [c EXCEPT !.res = r.res]
            ELSE [c EXCEPT !.s = r.s, !.echo = r.bytes,
                           !.res = IF PayloadEqual(r.bytes, c.fut.payload) THEN "Ok"
                                   ELSE "Io(InvalidData)"]

RECURSIVE ProtocolSendPing(_, _)
ProtocolSendPing(c, io) ==
    IF c.res # "running" THEN c ELSE ProtocolSendPing(ProtocolSendPingStep(c, io), io)

\* a select that polls the Delay before the ping
SendPingDelayFirst(fut, s, timeout, payload, ping, io) ==
    LET started == IF fut.stage = "new"
                   THEN [stage |-> "write", payload |-> payload, delay |-> "waiting", ping |-> ping]
                   ELSE fut
        c == [fut |-> started, s |-> s, res |-> "running", echo |-> << >>, deadline |-> 0]
    IN IF fut.delay = "fired"
       THEN [c EXCEPT !.res = "Timeout", !.deadline = TimeoutValue(timeout)]
       ELSE ProtocolSendPing(c, io)

\* handler::send_ping: the first poll samples the payload and creates the
\* Delay; select polls the ping before the Delay
SendPing(fut, s, timeout, payload, ping, io) ==
    LET started == IF fut.stage = "new"
                   THEN [stage |-> "write", payload |-> payload, delay |-> "waiting", ping |-> ping]
                   ELSE fut
        c == ProtocolSendPing([fut |-> started, s |-> s, res |-> "running", echo |-> << >>,
                               deadline |-> 0], io)
    IN IF c.res = "Pending" /\ c.fut.delay = "fired"
       THEN [c EXCEPT !.res = "Timeout", !.deadline = TimeoutValue(timeout)]
       ELSE c

\* protocol::recv_ping, one step of the async body
RecvPingStep(c, io) ==
    IF c.fut.stage = "read"
    THEN LET r == ReadExact(c.s, io)
         IN IF r.res # "Ok" THEN [c EXCEPT !.res = r.res]
            ELSE [c EXCEPT !.s = r.s, !.fut = [stage |-> "write", payload |-> r.bytes]]
    ELSE IF c.fut.stage = "write"
         THEN IF io.write = "err" THEN [c EXCEPT !.res = "Io(Other)"]
              ELSE [c EXCEPT !.s.wbuf = @ \o c.fut.payload, !.fut.stage = "flush"]
    ELSE IF io.flush = "err" THEN [c EXCEPT !.res = "Io(Other)"]
         ELSE IF io.flush = "pending" THEN [c EXCEPT !.res = "Pending"]
         ELSE [c EXCEPT !.s.wire = @ \o c.s.wbuf, !.s.wbuf = << >>, !.res = "Ok"]

RECURSIVE RecvPing(_, _)
RecvPing(c, io) == IF c.res # "running" THEN c ELSE RecvPing(RecvPingStep(c, io), io)

OnConnectionEventDeactivates(h, event) ==
    IF event.type = "NewInboundStream" THEN [h EXCEPT !.pong = NewPong]
    ELSE IF event.type = "NewOutboundStream" THEN [h EXCEPT !.outbound = Ping(event.stream)]
    ELSE IF event.err = "NegotiationFailed"
         THEN [h EXCEPT !.outbound = NoOutbound, !.interval = "waiting",
                        !.state = "Inactive", !.reported = FALSE]
    ELSE [h EXCEPT !.outbound = NoOutbound, !.interval = "waiting",
                   !.state = "Inactive", !.reported = FALSE,
                   !.pending_errors =
                       <<Error(IF event.err = "Timeout" THEN "Io(TimedOut)" ELSE "Io(Other)", 0)>>
                       \o @]

\* Handler::on_connection_event
OnConnectionEvent(h, event) ==
    IF event.type = "NewInboundStream" THEN [h EXCEPT !.pong = NewPong]
    ELSE IF event.type = "NewOutboundStream" THEN [h EXCEPT !.outbound = Ping(event.stream)]
    ELSE IF event.err = "NegotiationFailed"
         THEN [h EXCEPT !.outbound = NoOutbound, !.interval = "waiting",
                        !.state = "Inactive", !.reported = FALSE]
    ELSE [h EXCEPT !.outbound = NoOutbound, !.interval = "waiting",
                   !.pending_errors =
                       <<Error(IF event.err = "Timeout" THEN "Io(TimedOut)" ELSE "Io(Other)", 0)>>
                       \o @]

\* Handler::poll: "did we receive a pong?"
PollPong(c, io) ==
    IF c.h.pong.stage = "none" THEN c
    ELSE LET r == RecvPing([fut |-> c.h.pong, s |-> c.ss["in"], res |-> "running"], io)
         IN IF r.res = "Pending" THEN [c EXCEPT !.h.pong = r.fut, !.ss["in"] = r.s]
            ELSE IF r.res = "Ok" THEN [c EXCEPT !.h.pong = NewPong, !.ss["in"] = r.s]
            ELSE [c EXCEPT !.h.pong = NoPong, !.ss["in"] = NoStream]

\* Handler::poll: one turn of the loop over pending_errors and outbound
OutboundTurn(c, payload, io) ==
    IF c.h.pending_errors # << >>
    THEN [c EXCEPT !.h.pending_errors = Tail(@),
                   !.ret = NotifyProtocol(Head(c.h.pending_errors).kind,
                                          Head(c.h.pending_errors).ping)]
    ELSE IF c.h.outbound.kind = "OpenStream" THEN [c EXCEPT !.ret = PollPending]
    ELSE IF c.h.outbound.kind = "Idle"
         THEN IF c.h.interval = "elapsed"
              THEN [c EXCEPT !.h.outbound = Ping(c.h.outbound.stream)]
              ELSE [c EXCEPT !.ret = PollPending]
    ELSE IF c.h.outbound.kind = "Ping"
         THEN LET r == SendPing(c.h.outbound.fut, c.ss["out"], c.h.config.timeout, payload,
                                Len(c.log.pings) + 1, io)
                  entry == [payload |-> r.fut.payload, echo |-> r.echo, result |-> r.res,
                            stream |-> c.h.outbound.stream, deadline |-> r.deadline]
              IN IF r.res = "Pending"
                 THEN [c EXCEPT !.h.outbound.fut = r.fut, !.ss["out"] = r.s, !.ret = PollPending]
                 ELSE IF r.res = "Ok"
                      THEN [c EXCEPT !.h.interval = "waiting",
                                     !.h.outbound = Idle(c.h.outbound.stream),
                                     !.ss["out"] = r.s,
                                     !.log.pings = Append(@, entry),
                                     !.ret = NotifyProtocol("Ok", r.fut.ping)]
                 ELSE [c EXCEPT !.h.interval = "waiting",
                                !.h.outbound = NoOutbound,
                                !.ss["out"] = NoStream,
                                !.log.pings = Append(@, entry),
                                !.h.pending_errors = <<Error(r.res, r.fut.ping)>> \o @]
    ELSE IF c.h.interval = "elapsed"
         THEN [c EXCEPT !.h.outbound = OpenStream, !.ret = OutboundSubstreamRequest]
         ELSE [c EXCEPT !.ret = PollPending]

RECURSIVE OutboundLoop(_, _, _)
OutboundLoop(c, payload, io) ==
    IF c.ret # NoReturn THEN c ELSE OutboundLoop(OutboundTurn(c, payload, io), payload, io)

\* Handler::poll
HandlerPoll(h, ss, log, payload, ioOut, ioIn) ==
    LET c == [h |-> h, ss |-> ss, log |-> log, ret |-> NoReturn]
    IN IF h.state = "Inactive" /\ h.reported THEN [c EXCEPT !.ret = PollPending]
       ELSE IF h.state = "Inactive"
            THEN [c EXCEPT !.h.reported = TRUE, !.ret = NotifyProtocol("UnsupportedProtocol", 0)]
       ELSE OutboundLoop(PollPong(c, ioIn), payload, ioOut)

\* the inputs one call of poll reads: the I/O of a substream only while a
\* future holds it, the random payload only when a ping starts
ReadsInputs(h, payload, ioOut, ioIn) ==
    LET active == h.state = "Active"
        pings == active /\ h.outbound.kind \in {"Idle", "Ping"}
        starts == active /\ (h.outbound.kind = "Idle" \/ h.outbound.fut.stage = "new")
    IN /\ (~active \/ h.pong.stage = "none") => ioIn = IoOk
       /\ ~pings => ioOut = IoOk
       /\ ~starts => payload = Payload(0)

\* the connection polls its handler; on OutboundSubstreamRequest it opens a
\* substream and queues an outbound negotiator for it
PollHandler(payload, ioOut, ioIn) ==
    /\ ReadsInputs(handler, payload, ioOut, ioIn)
    /\ LET c == HandlerPoll(handler, substreams, pingLog, payload, ioOut, ioIn)
       IN /\ handler' = c.h
          /\ substreams' = c.ss
          /\ pingLog' = IF c.ret = PollPending THEN c.log
                        ELSE [c.log EXCEPT !.out = Append(@, c.ret),
                                           !.requested = IF c.ret = OutboundSubstreamRequest
                                                         THEN @ + 1 ELSE @]
    /\ UNCHANGED <<idVars, mgrVars, nodeVars, panicked>>
    /\ UNCHANGED negVars
    /\ UNCHANGED drvVars
    /\ UNCHANGED pollVars
    /\ UNCHANGED builder
    /\ UNCHANGED roundTrip

\* the handler is created with Handler::new(Config::new().with_timeout(d))
\* instead of the default configuration
ConfigureHandler(timeout) ==
    /\ handler = HandlerNew
    /\ pingLog = EmptyPingLog
    /\ timeout # ConfigNew.timeout
    /\ handler' = [HandlerNew EXCEPT !.config = Config(timeout)]
    /\ UNCHANGED <<substreams, pingLog>>
    /\ UNCHANGED <<idVars, mgrVars, nodeVars, panicked>>
    /\ UNCHANGED negVars
    /\ UNCHANGED drvVars
    /\ UNCHANGED pollVars
    /\ UNCHANGED builder
    /\ UNCHANGED roundTrip

\* the interval Delay elapses
IntervalElapse ==
    /\ handler.interval = "waiting"
    /\ pingLog.intervals < MaxIntervals
    /\ handler' = [handler EXCEPT !.interval = "elapsed"]
    /\ pingLog' = [pingLog EXCEPT !.intervals = @ + 1]
    /\ UNCHANGED substreams
    /\ UNCHANGED <<idVars, mgrVars, nodeVars, panicked>>
    /\ UNCHANGED negVars
    /\ UNCHANGED drvVars
    /\ UNCHANGED pollVars
    /\ UNCHANGED builder
    /\ UNCHANGED roundTrip

\* the Delay of the ping in flight elapses
PingTimeoutElapse ==
    /\ handler.outbound.kind = "Ping"
    /\ handler.outbound.fut.delay = "waiting"
    /\ handler' = [handler EXCEPT !.outbound.fut.delay = "fired"]
    /\ UNCHANGED <<substreams, pingLog>>
    /\ UNCHANGED <<idVars, mgrVars, nodeVars, panicked>>
    /\ UNCHANGED negVars
    /\ UNCHANGED drvVars
    /\ UNCHANGED pollVars
    /\ UNCHANGED builder
    /\ UNCHANGED roundTrip

\* the connection delivers NewOutboundStream for a substream the handler asked
\* for, once for each request
ConnNewOutboundStream ==
    /\ pingLog.requested > 0
    /\ LET id == pingLog.streams + 1
       IN /\ handler' = OnConnectionEvent(handler, [type |-> "NewOutboundStream", stream |-> id,
                                                    err |-> "none"])
          /\ substreams' = [substreams EXCEPT !["out"] = NewStream(id)]
          /\ pingLog' = [pingLog EXCEPT !.streams = id, !.requested = @ - 1]
    /\ UNCHANGED <<idVars, mgrVars, nodeVars, panicked>>
    /\ UNCHANGED negVars
    /\ UNCHANGED drvVars
    /\ UNCHANGED pollVars
    /\ UNCHANGED builder
    /\ UNCHANGED roundTrip

\* the connection delivers NewInboundStream for a substream the remote opened
ConnNewInboundStream ==
    /\ pingLog.inbound < MaxInbound
    /\ LET id == pingLog.inbound + 1
       IN /\ handler' = OnConnectionEvent(handler, [type |-> "NewInboundStream", stream |-> id,
                                                    err |-> "none"])
          /\ substreams' = [substreams EXCEPT !["in"] = NewStream(id)]
          /\ pingLog' = [pingLog EXCEPT !.inbound = id, !.remotePings = 0]
    /\ UNCHANGED <<idVars, mgrVars, nodeVars, panicked>>
    /\ UNCHANGED negVars
    /\ UNCHANGED drvVars
    /\ UNCHANGED pollVars
    /\ UNCHANGED builder
    /\ UNCHANGED roundTrip

\* the connection delivers FailNegotiation: for an outbound substream the
\* handler asked for (once for each request), or for a substream the remote
\* opened
ConnFailNegotiation(dir, err) ==
    /\ IF dir = "out" THEN pingLog.requested > 0
       ELSE pingLog.inbound < MaxInbound
    /\ handler' = OnConnectionEvent(handler, [type |-> "FailNegotiation", stream |-> 0,
                                              err |-> err])
    /\ pingLog' = [pingLog EXCEPT
                      !.requested = IF dir = "out" THEN @ - 1 ELSE @,
                      !.inbound = IF dir = "out" THEN @ ELSE @ + 1,
                      !.failed = IF err = "NegotiationFailed" THEN @ ELSE @ + 1]
    /\ substreams' = [substreams EXCEPT !["out"] = NoStream]
    /\ UNCHANGED <<idVars, mgrVars, nodeVars, panicked>>
    /\ UNCHANGED negVars
    /\ UNCHANGED drvVars
    /\ UNCHANGED pollVars
    /\ UNCHANGED builder
    /\ UNCHANGED roundTrip

\* the remote answers the ping on the outbound substream: the echo of
\* recv_ping, or PING_SIZE bytes that differ from the ping
RemotePong(kind) ==
    /\ substreams["out"].id # 0
    /\ ~substreams["out"].closed
    /\ Len(substreams["out"].wire) >= PING_SIZE
    /\ LET ping == SubSeq(substreams["out"].wire, 1, PING_SIZE)
           bytes == IF kind = "echo" THEN ping ELSE Flip(ping)
       IN substreams' = [substreams EXCEPT
              !["out"].wire = SubSeq(@, PING_SIZE + 1, Len(@)),
              !["out"].rx = @ \o bytes]
    /\ UNCHANGED <<handler, pingLog>>
    /\ UNCHANGED <<idVars, mgrVars, nodeVars, panicked>>
    /\ UNCHANGED negVars
    /\ UNCHANGED drvVars
    /\ UNCHANGED pollVars
    /\ UNCHANGED builder
    /\ UNCHANGED roundTrip

\* the remote sends a ping on the inbound substream
RemotePing(payload) ==
    /\ substreams["in"].id # 0
    /\ ~substreams["in"].closed
    /\ pingLog.remotePings < MaxRemotePings
    /\ substreams' = [substreams EXCEPT !["in"].rx = @ \o payload, !["in"].sent = @ \o payload]
    /\ pingLog' = [pingLog EXCEPT !.remotePings = @ + 1]
    /\ UNCHANGED handler
    /\ UNCHANGED <<idVars, mgrVars, nodeVars, panicked>>
    /\ UNCHANGED negVars
    /\ UNCHANGED drvVars
    /\ UNCHANGED pollVars
    /\ UNCHANGED builder
    /\ UNCHANGED roundTrip

\* the remote closes its end of a substream
RemoteCloseStream(dir) ==
    /\ substreams[dir].id # 0
    /\ ~substreams[dir].closed
    /\ substreams' = [substreams EXCEPT ![dir].closed = TRUE]
    /\ UNCHANGED <<handler, pingLog>>
    /\ UNCHANGED <<idVars, mgrVars, nodeVars, panicked>>
    /\ UNCHANGED negVars
    /\ UNCHANGED drvVars
    /\ UNCHANGED pollVars
    /\ UNCHANGED builder
    /\ UNCHANGED roundTrip

(* ----------------- StreamProtocol: parsing and formatting ---------------- *)
\* number of pieces an input text is put together from
MaxTokens == 5
\* length of the namespace and of the name given to StreamProtocol::new
MaxNameLen == 2
\* number of conversions applied in a row to one input
MaxConversions == 2

Tokens == {<<"a">>, <<"/">>, <<"@">>, <<"1">>, <<"1", ".", "0", ".", "0">>}

RECURSIVE Concat(_)
Concat(ts) == IF ts = << >> THEN << >> ELSE Head(ts) \o Concat(Tail(ts))

\* the &str given to from_str
Texts == {Concat(ts) : ts \in UNION {[1..k -> Tokens] : k \in 0..MaxTokens}}

\* the &str given to StreamProtocol::new as namespace and as name
NameChars == {"a", "/", "@"}
Names == UNION {[1..k -> NameChars] : k \in 0..MaxNameLen}
Versions == {Version(1, 0, 0), Version(0, 1, 0), Version(10, 2, 3)}

NoValue == [full |-> << >>, namespace |-> << >>, name |-> << >>, version |-> Version(0, 0, 0)]

\* a text, a StreamProtocol, or a ParseStreamProtocolError
Item(kind, text, value, err) == [kind |-> kind, text |-> text, value |-> value, err |-> err]
TextItem(s) == Item("text", s, NoValue, "none")
ValueItem(p) == Item("value", << >>, p, "none")
ErrorItem(e) == Item("error", << >>, NoValue, e)

NoConversion == [start |-> Item("none", << >>, NoValue, "none"), steps |-> << >>]

Conversions ==
    {[start |-> TextItem(s), steps |-> << >>] : s \in Texts}
    \cup {[start |-> ValueItem(StreamProtocolNew(ns, n, v)), steps |-> << >>] :
              ns \in Names, n \in Names, v \in Versions}

\* the item the next conversion applies to
Current(rt) == IF rt.steps = << >> THEN rt.start ELSE rt.steps[Len(rt.steps)]

\* s.parse::<StreamProtocol>()
ApplyFromStr ==
    /\ Len(roundTrip.steps) < MaxConversions
    /\ Current(roundTrip).kind = "text"
    /\ LET r == FromStr(Current(roundTrip).text)
       IN roundTrip' = [roundTrip EXCEPT !.steps =
              Append(@, IF r.err = "none" THEN ValueItem(r.value) ELSE ErrorItem(r.err))]
    /\ UNCHANGED <<idVars, mgrVars, nodeVars, panicked>>
    /\ UNCHANGED negVars
    /\ UNCHANGED drvVars
    /\ UNCHANGED pollVars
    /\ UNCHANGED builder
    /\ UNCHANGED pingVars

\* p.to_string(), through Display
ApplyToString ==
    /\ Len(roundTrip.steps) < MaxConversions
    /\ Current(roundTrip).kind = "value"
    /\ roundTrip' = [roundTrip EXCEPT !.steps =
           Append(@, TextItem(ProtocolDisplay(Current(roundTrip).value)))]
    /\ UNCHANGED <<idVars, mgrVars, nodeVars, panicked>>
    /\ UNCHANGED negVars
    /\ UNCHANGED drvVars
    /\ UNCHANGED pollVars
    /\ UNCHANGED builder
    /\ UNCHANGED pingVars

(* --------------------------- specifications ---------------------------- *)
vars == <<slab, idRet, conns, pending, established, drivers, pending_peer_events, peerOut,
          transports, pending_events, nodeOut, nodePc, dialRet, listenerEvents, panicked,
          neg, negActive, rx, rxClosed, wire, remoteFrames,
          driver, command_channel, event_channel, drvLog, transportReady, returned,
          builder, roundTrip, handler, substreams, pingLog>>

InitCommon ==
    /\ slab = EmptySlab
    /\ idRet = [op |-> "none", id |-> -1, panic |-> FALSE]
    /\ conns = << >>
    /\ pending = EmptyMap
    /\ established = EmptyMap
    /\ drivers = {}
    /\ pending_peer_events = << >>
    /\ peerOut = << >>
    /\ pending_events = << >>
    /\ nodeOut = << >>
    /\ nodePc = "idle"
    /\ dialRet = [addr |-> "none", ret |-> "none"]
    /\ listenerEvents = 0
    /\ panicked = "none"
    /\ driver = NoDriver
    /\ command_channel = Channel(ChannelBuffer)
    /\ event_channel = Channel(ChannelBuffer)
    /\ drvLog = EmptyLog
    /\ transportReady = [t \in Protocol |-> "none"]
    /\ returned = PollResult("none", "none", "none")
    /\ builder = BuilderNew
    /\ handler = HandlerNew
    /\ substreams = [dir \in {"out", "in"} |-> NoStream]
    /\ pingLog = EmptyPingLog

\* no negotiator is running
InitNoNeg ==
    /\ neg = [side \in Sides |-> NegNew(side, << >>)]
    /\ negActive = {}
    /\ rx = [side \in Sides |-> << >>]
    /\ rxClosed = [side \in Sides |-> FALSE]
    /\ wire = [side \in Sides |-> << >>]
    /\ remoteFrames = [side \in Sides |-> 0]

\* Node::new after Builder::build: the transports are those added to the builder
Init ==
    /\ InitCommon
    /\ InitNoNeg
    /\ roundTrip = NoConversion
    /\ transports \in SUBSET TransportKeys

Next ==
    \/ \E addr \in {"none", "wt"}, res \in {"Ok", "Err"} : Dial(addr, res)
    \/ \E a \in 1..MaxConn : FutureResolve(a)
    \/ \E a \in 1..MaxConn : TaskPoll(a)
    \/ PollNextPop
    \/ PollNextManager
    \/ \E t \in TransportKeys : PollNextIncoming(t)
    \/ \E t \in TransportKeys, type \in ListenerEventTypes : PollNextListener(t, type)
    \/ PollNextPending

Spec == Init /\ [][Next]_vars

(* ------------------ peer manager driven by its caller ------------------ *)
\* ConnectionId::next followed by Manager::add_outgoing; the dial future is
\* either still running or already resolved to an error
MgrAddOutgoing(res) ==
    /\ panicked = "none"
    /\ Len(conns) < MaxMgrConn
    /\ IF res = "Ok"
       THEN AddPending("out", "Dialer", "pending", "none")
       ELSE AddPending("out", "Dialer", "err", "Transport(dial)")
    /\ UNCHANGED <<established, drivers, pending_peer_events, peerOut>>
    /\ UNCHANGED <<idRet, nodeVars, panicked>>
    /\ UNCHANGED negVars
    /\ UNCHANGED pollVars
    /\ UNCHANGED builder
    /\ UNCHANGED drvVars
    /\ UNCHANGED builder
    /\ UNCHANGED roundTrip
    /\ UNCHANGED pingVars

\* ConnectionId::next followed by Manager::add_incoming
MgrAddIncoming ==
    /\ panicked = "none"
    /\ Len(conns) < MaxMgrConn
    /\ AddPending("in", "Listener", "pending", "none")
    /\ UNCHANGED <<established, drivers, pending_peer_events, peerOut>>
    /\ UNCHANGED <<idRet, nodeVars, panicked>>
    /\ UNCHANGED negVars
    /\ UNCHANGED pollVars
    /\ UNCHANGED builder
    /\ UNCHANGED drvVars
    /\ UNCHANGED builder
    /\ UNCHANGED roundTrip
    /\ UNCHANGED pingVars

\* where the attempt stood when its abort notifier was dropped
AbortPhase(c) ==
    IF c.task # "select" THEN "sent" ELSE IF c.fut = "pending" THEN "pending" ELSE "resolved"

\* PendingPeer::abort on the pending entry of id
MgrAbort(id) ==
    /\ panicked = "none"
    /\ id \in DOMAIN pending
    /\ pending[id].abort_notifier
    /\ pending' = [pending EXCEPT ![id] = Abort(@)]
    /\ conns' = [DropNotifier(conns, pending[id]) EXCEPT ![pending[id].att].abortedAt =
                    AbortPhase(conns[pending[id].att])]
    /\ UNCHANGED <<established, drivers, pending_peer_events, peerOut>>
    /\ UNCHANGED <<idVars, nodeVars, panicked>>
    /\ UNCHANGED negVars
    /\ UNCHANGED pollVars
    /\ UNCHANGED builder
    /\ UNCHANGED drvVars
    /\ UNCHANGED builder
    /\ UNCHANGED roundTrip
    /\ UNCHANGED pingVars

\* Manager::poll called directly
MgrPoll ==
    /\ panicked = "none"
    /\ ManagerPollReady
    /\ UNCHANGED <<idRet, nodeVars>>
    /\ UNCHANGED negVars
    /\ UNCHANGED pollVars
    /\ UNCHANGED builder
    /\ UNCHANGED drvVars
    /\ UNCHANGED builder
    /\ UNCHANGED roundTrip
    /\ UNCHANGED pingVars

\* Manager::spawn_connection called with the contents of a ConnectionEstablished
\* event that Manager::poll returned
MgrSpawnConnection(i) ==
    /\ panicked = "none"
    /\ i \in DOMAIN peerOut
    /\ peerOut[i].type = "ConnectionEstablished"
    /\ \A d \in drivers : d.att # peerOut[i].att
    /\ SpawnConnection(peerOut[i].connection_id, peerOut[i].peer_id,
                       peerOut[i].connection_origin, peerOut[i].att)
    /\ UNCHANGED <<conns, pending, pending_peer_events, peerOut>>
    /\ UNCHANGED <<idVars, nodeVars, panicked>>
    /\ UNCHANGED negVars
    /\ UNCHANGED pollVars
    /\ UNCHANGED builder
    /\ UNCHANGED drvVars
    /\ UNCHANGED builder
    /\ UNCHANGED roundTrip
    /\ UNCHANGED pingVars

InitManager ==
    /\ InitCommon
    /\ InitNoNeg
    /\ roundTrip = NoConversion
    /\ transports = {}

NextManager ==
    \/ \E res \in {"Ok", "Err"} : MgrAddOutgoing(res)
    \/ MgrAddIncoming
    \/ \E id \in 0..(MaxMgrConn - 1) : MgrAbort(id)
    \/ \E a \in 1..MaxMgrConn : FutureResolve(a)
    \/ \E a \in 1..MaxMgrConn : TaskPoll(a)
    \/ MgrPoll
    \/ \E i \in 1..MaxMgrConn : MgrSpawnConnection(i)

SpecManager == InitManager /\ [][NextManager]_vars

\* the executor runs every spawned task and the owner keeps polling the manager
FairSpecManager ==
    /\ SpecManager
    /\ \A a \in 1..MaxMgrConn : WF_vars(TaskPoll(a))
    /\ WF_vars(MgrPoll)

(* ----------------------- allocator on its own -------------------------- *)
\* ConnectionId::next
IdNext ==
    /\ Cardinality(Live(slab)) < MaxLive
    /\ slab' = ConnectionIdNext(slab).slab
    /\ idRet' = [op |-> "next", id |-> ConnectionIdNext(slab).id, panic |-> FALSE]
    /\ UNCHANGED <<mgrVars, nodeVars, panicked>>
    /\ UNCHANGED negVars
    /\ UNCHANGED pollVars
    /\ UNCHANGED builder
    /\ UNCHANGED drvVars
    /\ UNCHANGED builder
    /\ UNCHANGED roundTrip
    /\ UNCHANGED pingVars

\* ConnectionId::remove on any id value, live or not (ConnectionId::from builds one)
IdRemove(k) ==
    /\ slab' = ConnectionIdRemove(slab, k).slab
    /\ idRet' = [op |-> "remove", id |-> k, panic |-> ConnectionIdRemove(slab, k).panic]
    /\ UNCHANGED <<mgrVars, nodeVars, panicked>>
    /\ UNCHANGED negVars
    /\ UNCHANGED pollVars
    /\ UNCHANGED builder
    /\ UNCHANGED drvVars
    /\ UNCHANGED builder
    /\ UNCHANGED roundTrip
    /\ UNCHANGED pingVars

NextIds ==
    \/ IdNext
    \/ \E k \in 0..MaxLive : IdRemove(k)

SpecIds == InitManager /\ [][NextIds]_vars

(* ------------------------ negotiator on its own ------------------------ *)
\* one negotiator, outbound or inbound, facing an arbitrary remote
InitNeg ==
    /\ InitCommon
    /\ roundTrip = NoConversion
    /\ transports = {}
    /\ \E side \in Sides, l \in ProtocolLists :
           /\ negActive = {side}
           /\ neg = [x \in Sides |-> NegNew(x, IF x = side THEN l ELSE << >>)]
    /\ rx = [side \in Sides |-> << >>]
    /\ rxClosed = [side \in Sides |-> FALSE]
    /\ wire = [side \in Sides |-> << >>]
    /\ remoteFrames = [side \in Sides |-> 0]

NextNeg ==
    \/ \E side \in Sides, io \in IoChoices : NegPoll(side, io)
    \/ \E side \in Sides : NegTimerFire(side)
    \/ \E side \in Sides, frame \in RemoteFrameSet : RemoteSend(side, frame)
    \/ \E side \in Sides : RemoteClose(side)

SpecNeg == InitNeg /\ [][NextNeg]_vars

\* an outbound and an inbound negotiator at the two ends of one substream
InitNegPair ==
    /\ InitCommon
    /\ roundTrip = NoConversion
    /\ transports = {}
    /\ negActive = Sides
    /\ \E lo \in ProtocolLists, li \in ProtocolLists :
           neg = [x \in Sides |-> NegNew(x, IF x = "out" THEN lo ELSE li)]
    /\ rx = [side \in Sides |-> << >>]
    /\ rxClosed = [side \in Sides |-> FALSE]
    /\ wire = [side \in Sides |-> << >>]
    /\ remoteFrames = [side \in Sides |-> 0]

NextNegPair ==
    \/ \E side \in Sides, io \in IoChoices : NegPoll(side, io)
    \/ \E side \in Sides : NegTimerFire(side)
    \/ \E side \in Sides : Deliver(side)
    \/ \E side \in Sides : PeerDropped(side)

SpecNegPair == InitNegPair /\ [][NextNegPair]_vars

(* --------------------------- driver on its own -------------------------- *)
NextDriver ==
    \/ \E peer_id \in Peers : DrvSpawnConnection(peer_id)
    \/ DrvStart
    \/ DrvPollCommand
    \/ \E kind \in {"Notify", "AddressChange", "Err"} : DrvPollConnection(kind)
    \/ DrvSend
    \/ DrvSendAll
    \/ \E res \in {"ok", "err"} : DrvMuxerClosed(res)
    \/ DrvSendClosed
    \/ \E type \in {"NotifyProtocol", "Close"} : CmdSend(type)
    \/ CmdSenderDrop
    \/ EvRecv

SpecDriver == InitManager /\ [][NextDriver]_vars

(* ---------------------- poll_next called repeatedly --------------------- *)
InitPoll ==
    /\ InitCommon
    /\ InitNoNeg
    /\ roundTrip = NoConversion
    /\ transports = Protocol

NextPoll ==
    \/ \E t \in Protocol, type \in ListenerEventTypes : TransportEvent(t, type)
    \/ PollNextEvent

SpecPoll == InitPoll /\ [][NextPoll]_vars

\* the owner of the node keeps calling poll_next
FairSpecPoll == SpecPoll /\ WF_vars(PollNextEvent)

(* --------------------------- builder on its own ------------------------- *)
NextBuilder ==
    \/ \E key \in Protocol : WithTransport(key)
    \/ \E res \in {"Ok", "Err"} : WithProtocol(res)
    \/ Build

SpecBuilder == InitManager /\ [][NextBuilder]_vars

(* ------------------- parsing and formatting on their own ----------------- *)
InitParse ==
    /\ InitCommon
    /\ InitNoNeg
    /\ transports = {}
    /\ roundTrip \in Conversions

NextParse ==
    \/ ApplyFromStr
    \/ ApplyToString

SpecParse == InitParse /\ [][NextParse]_vars

(* ------------------------ ping handler on its own ------------------------ *)
NextPing ==
    \/ \E timeout \in Timeouts : ConfigureHandler(timeout)
    \/ \E payload \in Payloads, ioOut \in PingIo, ioIn \in PingIo :
           PollHandler(payload, ioOut, ioIn)
    \/ IntervalElapse
    \/ PingTimeoutElapse
    \/ ConnNewOutboundStream
    \/ ConnNewInboundStream
    \/ \E dir \in {"out", "in"}, err \in {"Timeout", "IoError", "NegotiationFailed"} :
           ConnFailNegotiation(dir, err)
    \/ \E kind \in {"echo", "other"} : RemotePong(kind)
    \/ \E payload \in Payloads : RemotePing(payload)
    \/ \E dir \in {"out", "in"} : RemoteCloseStream(dir)

SpecPing == InitManager /\ [][NextPing]_vars

(* ------------------ peer manager with a spawned driver ------------------ *)
\* Manager::spawn_connection called with the contents of a ConnectionEstablished
\* event that Manager::poll returned, together with the driver task it spawns
MgrSpawnDriver(i) ==
    /\ panicked = "none"
    /\ driver.pc = "none"
    /\ i \in DOMAIN peerOut
    /\ peerOut[i].type = "ConnectionEstablished"
    /\ \A d \in drivers : d.att # peerOut[i].att
    /\ SpawnConnection(peerOut[i].connection_id, peerOut[i].peer_id,
                       peerOut[i].connection_origin, peerOut[i].att)
    /\ driver' = [NoDriver EXCEPT !.pc = "select", !.via = "spawn_connection"]
    /\ command_channel' = Channel(SpawnBuffer)
    /\ event_channel' = [Channel(SpawnBuffer) EXCEPT !.receiver = "dropped"]
    /\ UNCHANGED drvLog
    /\ UNCHANGED <<conns, pending, pending_peer_events, peerOut>>
    /\ UNCHANGED <<idVars, nodeVars, panicked>>
    /\ UNCHANGED negVars
    /\ UNCHANGED pollVars
    /\ UNCHANGED builder
    /\ UNCHANGED roundTrip
    /\ UNCHANGED pingVars

NextManagerDriver ==
    \/ \E res \in {"Ok", "Err"} : MgrAddOutgoing(res)
    \/ MgrAddIncoming
    \/ \E a \in 1..MaxMgrConn : FutureResolve(a)
    \/ \E a \in 1..MaxMgrConn : TaskPoll(a)
    \/ MgrPoll
    \/ \E i \in 1..MaxMgrConn : MgrSpawnDriver(i)
    \/ \E kind \in {"Notify", "AddressChange", "Err"} : DrvPollConnection(kind)
    \/ DrvSendAll
    \/ DrvSendClosed

SpecManagerDriver == InitManager /\ [][NextManagerDriver]_vars

(* ------------------------------ claims --------------------------------- *)
IsEstablished(e) == e.type = "ConnectionEstablished"
IsPendingError(e) ==
    e.type \in {"PendingOutboundConnectionError", "PendingInboundConnectionError"}

EstCount(out, id) == CountIn(out, LAMBDA e : IsEstablished(e) /\ e.connection_id = id)
ErrCount(a) == CountIn(peerOut, LAMBDA e : IsPendingError(e) /\ e.att = a)

\* the pending task of attempt a has sent its event and the manager has taken it
Processed(a) ==
    /\ conns[a].task # "select"
    /\ \A i \in DOMAIN pending_peer_events : pending_peer_events[i].att # a

NoPendingEntry(a) == \A id \in DOMAIN pending : pending[id].att # a

\* nothing is in flight between the pending tasks and the node's event stream
NodeQuiescent ==
    /\ pending_peer_events = << >>
    /\ pending_events = << >>
    /\ \A a \in DOMAIN conns : ~TaskReady(conns[a])

\* C1: a connection id whose upgrade succeeded is reported by at most one
\* ConnectionEstablished PeerEvent and at most one ConnectionEstablished NodeEvent,
\* and by exactly one of each once nothing is in flight any more.
C1_ExactlyOneEstablished ==
    \A a \in DOMAIN conns :
        (conns[a].fut = "ok" /\ conns[a].abortedAt = "never") =>
            /\ EstCount(peerOut, conns[a].id) <= 1
            /\ EstCount(nodeOut, conns[a].id) <= 1
            /\ NodeQuiescent =>
                   /\ EstCount(peerOut, conns[a].id) = 1
                   /\ EstCount(nodeOut, conns[a].id) = 1

C1_Witness ==
    \E a \in DOMAIN conns :
        /\ conns[a].fut = "ok"
        /\ EstCount(peerOut, conns[a].id) = 1
        /\ EstCount(nodeOut, conns[a].id) = 1
        /\ NodeQuiescent

\* C2: an attempt whose upgrade future failed gets exactly one pending-connection
\* error of its direction carrying its connection id, loses its pending entry and
\* has its id released exactly once.
C2_FailedUpgradeReported ==
    \A a \in DOMAIN conns :
        (conns[a].fut = "err" /\ conns[a].abortedAt = "never") =>
            /\ ErrCount(a) <= 1
            /\ conns[a].released <= 1
            /\ \A i \in DOMAIN peerOut :
                   peerOut[i].att = a =>
                       /\ peerOut[i].type = IF conns[a].dir = "out"
                                            THEN "PendingOutboundConnectionError"
                                            ELSE "PendingInboundConnectionError"
                       /\ peerOut[i].connection_id = conns[a].id
                       /\ peerOut[i].error = conns[a].ferr
            /\ Processed(a) =>
                   /\ ErrCount(a) = 1
                   /\ conns[a].released = 1
                   /\ NoPendingEntry(a)

C2_Witness ==
    \E a, b \in DOMAIN conns :
        /\ a # b
        /\ conns[a].fut = "err" /\ conns[a].dir = "out" /\ Processed(a) /\ ErrCount(a) = 1
        /\ conns[b].fut = "err" /\ conns[b].dir = "in" /\ Processed(b) /\ ErrCount(b) = 1
        /\ conns[a].id = conns[b].id

\* C3: an outgoing attempt whose abort notifier was dropped while its dial future
\* was unresolved never yields ConnectionEstablished, yields at most one error and
\* only Aborted, and eventually has exactly one Aborted error returned, its pending
\* entry gone and its id released.
EarlyAborted(a) == a \in DOMAIN conns /\ conns[a].dir = "out" /\ conns[a].abortedAt = "pending"

AbortedCount(a) ==
    CountIn(peerOut, LAMBDA e : /\ e.type = "PendingOutboundConnectionError"
                                /\ e.att = a
                                /\ e.connection_id = conns[a].id
                                /\ e.error = "Aborted")

C3_Safe ==
    \A a \in DOMAIN conns :
        EarlyAborted(a) =>
            /\ \A i \in DOMAIN peerOut : ~(IsEstablished(peerOut[i]) /\ peerOut[i].att = a)
            /\ \A i \in DOMAIN pending_peer_events :
                   ~(IsEstablished(pending_peer_events[i]) /\ pending_peer_events[i].att = a)
            /\ CountIn(peerOut, LAMBDA e : e.att = a) <= 1
            /\ CountIn(peerOut, LAMBDA e : e.att = a) = AbortedCount(a)
            /\ conns[a].released <= 1

C3_Done(a) == AbortedCount(a) = 1 /\ conns[a].released = 1 /\ NoPendingEntry(a)

C3_AbortOnPending ==
    /\ []C3_Safe
    /\ \A a \in 1..MaxMgrConn : EarlyAborted(a) ~> C3_Done(a)

C3_Witness ==
    \E a \in DOMAIN conns : EarlyAborted(a) /\ conns[a].fut = "ok" /\ C3_Done(a)

\* C4: no connection id is in the pending map and in the established map of any
\* peer at the same time.
EstablishedIds == UNION {DOMAIN established[p] : p \in DOMAIN established}

C5_PromotedWhenEmitted ==
    \A i \in DOMAIN nodeOut :
        IsEstablished(nodeOut[i]) =>
            /\ nodeOut[i].connection_id \notin DOMAIN pending
            /\ nodeOut[i].peer_id \in DOMAIN established
            /\ nodeOut[i].connection_id \in DOMAIN established[nodeOut[i].peer_id]
            /\ \E d \in drivers : /\ d.connection_id = nodeOut[i].connection_id
                                  /\ d.peer_id = nodeOut[i].peer_id

\* C6: the id returned by ConnectionId::next is not live when it is returned, and
\* it is live afterwards together with exactly the ids that were live before.
C6_NextIsFresh ==
    [][idRet'.op = "next" =>
           /\ idRet'.id \notin Live(slab)
           /\ Live(slab') = Live(slab) \cup {idRet'.id}]_vars

C6_Witness ==
    /\ idRet.op = "next"
    /\ idRet.id + 1 < Len(slab.entries)
    /\ Cardinality(Live(slab)) >= 3

\* C7: ConnectionId::remove of an id that is not live panics and leaves the set of
\* live ids as it was.
C7_RemoveNotLivePanics ==
    [][(idRet'.op = "remove" /\ idRet'.id \notin Live(slab)) =>
           /\ idRet'.panic
           /\ Live(slab') = Live(slab)]_vars

C7_Witness ==
    /\ idRet.op = "remove"
    /\ idRet.panic
    /\ idRet.id < Len(slab.entries)
    /\ Live(slab) # {}

(* C8: a negotiator that has received the remote protocol list completes
   successfully only if the local and the remote list share a protocol, and
   then selects the first entry of the local list that the remote list also
   holds; with an empty intersection it does not succeed. *)
Common(local, remote) == {p \in Range(local) : p \in Range(remote)}
FirstCommon(local, remote) ==
    local[Min({i \in DOMAIN local : local[i] \in Range(remote)})]
C8_SelectsFirstCommon ==
    \A side \in negActive :
        (neg[side].received.some /\ neg[side].result = "Ok") =>
            /\ Common(neg[side].protocols, neg[side].received.list) # {}
            /\ NegOutput(neg[side]).protocol =
                   {FirstCommon(neg[side].protocols, neg[side].received.list)}

(* C9: when an outbound and an inbound negotiator run on one substream with
   intersecting lists and both succeed, both select the same protocol, the
   first entry of the outbound (initiator) list that the inbound list holds. *)
C9_InitiatorPreference ==
    (/\ negActive = Sides
     /\ neg["out"].result = "Ok" /\ neg["in"].result = "Ok"
     /\ Common(neg["out"].protocols, neg["in"].protocols) # {}) =>
        /\ NegOutput(neg["out"]).protocol = {FirstCommon(neg["out"].protocols, neg["in"].protocols)}
        /\ NegOutput(neg["in"]).protocol = {FirstCommon(neg["out"].protocols, neg["in"].protocols)}

(* C10: a negotiator run that has finished returned the substream or one of
   Timeout, IoError, NegotiationFailed, whatever frame the remote sent; it
   never crashed. *)
C10_EndsWithDeclaredOutcome ==
    \A side \in negActive :
        neg[side].result \in {"none", "Ok", "Timeout", "IoError", "NegotiationFailed"}

(* C11: a negotiator returns Timeout exactly when its timer has fired before
   the handshake completed: a poll made after the timer fired returns Timeout
   whatever the substream has ready and leaves the handshake state as it was,
   and a poll made while the timer has not fired never returns Timeout. *)
Polled(side) == neg'[side] # neg[side] /\ neg'[side].timeout = neg[side].timeout
C11_TimeoutStep ==
    \A side \in negActive :
        /\ (Polled(side) /\ neg[side].timeout) =>
               neg'[side] = [neg[side] EXCEPT !.result = "Timeout"]
        /\ (Polled(side) /\ ~neg[side].timeout) => neg'[side].result # "Timeout"
        /\ (neg[side].timeout /\ neg[side].result = "none" /\ neg'[side].result # "none") =>
               neg'[side].result = "Timeout"
C11_TimeoutIffTimerFired == [][C11_TimeoutStep]_vars
C11_Witness ==
    \E side \in negActive :
        /\ neg[side].result = "Timeout"
        /\ rx[side] # << >>
        /\ Decode(Head(rx[side])).ok

(* C12: the negotiator never closes or discards the substream: after it has
   finished with Ok, Timeout, IoError or NegotiationFailed the caller owns the
   substream. *)
C12_CallerOwnsSubstream ==
    \A side \in negActive :
        neg[side].result \in {"Ok", "Timeout", "IoError", "NegotiationFailed"} =>
            NegOutput(neg[side]).stream

(* C13: a driver task that closes its connection, on a Close command or on a
   connection error, closes the command inbox, forwards every residual handler
   event, closes the muxer and waits for that to complete, and then emits
   exactly one Closed event, the last event it sends. *)
ClosedCount(events) == Cardinality({i \in DOMAIN events : events[i].type = "Closed"})
C13_CloseOrder ==
    (driver.via = "caller" /\ driver.pc = "done" /\ drvLog.steps # << >>) =>
        /\ drvLog.steps = <<"close_inbox", "forward_residual", "close_muxer", "emit_closed">>
        /\ driver.muxer = "closed"
        /\ driver.residual = << >>
        /\ ClosedCount(drvLog.sent) = 1
        /\ drvLog.sent[Len(drvLog.sent)].type = "Closed"

(* C14: for one established connection the handler receives the NotifyProtocol
   commands in the order they were sent, receives none once a Close command
   has been taken from the inbox, and the handler's events reach the event
   outbox, and its reader, in the order the handler emitted them. *)
Increasing(events) ==
    \A i, j \in DOMAIN events :
        (i < j /\ events[i].type # "Closed" /\ events[j].type # "Closed") =>
            events[i].event < events[j].event
C14_Ordered ==
    /\ \A i \in DOMAIN driver.handler : driver.handler[i] = i
    /\ Increasing(drvLog.sent)
    /\ event_channel.receiver = "held" => drvLog.received \o event_channel.q = drvLog.sent
C14_NoneAfterClose ==
    command_channel.receiver = "closed" => driver'.handler = driver.handler
C14_OrderPreserved == []C14_Ordered /\ [][C14_NoneAfterClose]_vars
C14_Witness ==
    /\ driver.pc = "done"
    /\ driver.handler = <<1>>
    /\ drvLog.commands = 2
    /\ Len(command_channel.q) = 1
    /\ Len(drvLog.received) = 3
    /\ drvLog.received[1].type = "AddressChange"
    /\ drvLog.received[2].type = "Notify"

(* C15: no event of a driver that spawn_connection created is dropped: every
   event the driver sends stays in the channel until the peer manager receives
   it. *)
C15_NoDriverEventDropped ==
    driver.via = "spawn_connection" =>
        /\ drvLog.lost = << >>
        /\ drvLog.received \o event_channel.q = drvLog.sent

(* C16: Node::dial returns NoProtocolsInMultiaddr for an address without a
   recognised transport component and TransportNotFound when no configured
   transport has the extracted key; in both cases no dial future is created and
   the pending map of the peer manager stays as it was. *)
DialReturned == nodePc = "idle" /\ nodePc' = "idle" /\ slab' # slab
C16_DialStep ==
    DialReturned =>
        /\ dialRet'.addr # "wt" => dialRet'.ret = "NoProtocolsInMultiaddr"
        /\ (dialRet'.addr = "wt" /\ "WebTransport" \notin transports) =>
               dialRet'.ret = "TransportNotFound"
        /\ dialRet'.ret \in {"NoProtocolsInMultiaddr", "TransportNotFound"} =>
               /\ conns' = conns
               /\ pending' = pending
C16_DialRejects == [][C16_DialStep]_vars
C16_Witness ==
    /\ dialRet.ret = "NoProtocolsInMultiaddr"
    /\ "WebTransport" \in transports
    /\ pending # EmptyMap

(* C17: when transport.dial itself fails, the attempt gets a connection id no
   other unreleased attempt holds, the peer manager returns for it exactly one
   PendingOutboundConnectionError with that id and the Transport error, never
   ConnectionEstablished, and the id is released. *)
DialFailed(a) == conns[a].dir = "out" /\ conns[a].ferr = "Transport(dial)"
C17_DialFailureReported ==
    \A a \in DOMAIN conns :
        DialFailed(a) =>
            /\ \A i \in DOMAIN peerOut :
                   peerOut[i].att = a =>
                       /\ peerOut[i].type = "PendingOutboundConnectionError"
                       /\ peerOut[i].connection_id = conns[a].id
                       /\ peerOut[i].error = "Transport(dial)"
            /\ ErrCount(a) <= 1
            /\ conns[a].released = 0 =>
                   /\ conns[a].id \in Live(slab)
                   /\ \A b \in DOMAIN conns \ {a} :
                          conns[b].released = 0 => conns[b].id # conns[a].id
            /\ Processed(a) =>
                   /\ ErrCount(a) = 1
                   /\ conns[a].released = 1
                   /\ NoPendingEntry(a)
C17_Witness ==
    \E a \in DOMAIN conns :
        /\ DialFailed(a)
        /\ Processed(a)
        /\ ErrCount(a) = 1
        /\ conns[a].id \notin Live(slab)

(* C18: in Node::poll_next a queued event is returned before the peer manager
   or a transport is polled, the peer manager is polled before any transport, a
   transport is polled only when pending_events is empty and the peer manager
   returned Pending in that pass, and queued events are returned in the order
   they were queued. *)
ManagerPolledReady == Len(pending_peer_events') < Len(pending_peer_events)
TransportPolledReady ==
    \/ listenerEvents' # listenerEvents
    \/ Len(conns') > Len(conns) /\ conns'[Len(conns')].dir = "in"
C18_PollStep ==
    /\ ManagerPolledReady => pending_events = << >>
    /\ TransportPolledReady => (pending_events = << >> /\ pending_peer_events = << >>)
    /\ (ManagerPolledReady \/ TransportPolledReady) => nodeOut' = nodeOut
    /\ nodeOut' # nodeOut =>
           /\ pending_events # << >>
           /\ nodeOut' = Append(nodeOut, Head(pending_events))
           /\ pending_events' = Tail(pending_events)
    /\ pending_events' # pending_events =>
           \/ pending_events # << >> /\ pending_events' = Tail(pending_events)
           \/ \E e \in Range(pending_events') : pending_events' = Append(pending_events, e)
C18_PollPrecedence == [][C18_PollStep]_vars
C18_Witness ==
    /\ Len(nodeOut) >= 2
    /\ nodeOut[1].type = "IncomingConnection"
    /\ nodeOut[2].type = "ConnectionEstablished"
    /\ pending_events # << >>

(* C19: under repeated calls of Node::poll_next no event source is starved: a
   transport that has an event ready eventually has that event taken and
   returned, even while another transport has an event ready at every poll. *)
C19_NoStarvation ==
    \A t \in Protocol : (transportReady[t] # "none") ~> (transportReady[t] = "none")

(* C20: Builder::with_transport returns DuplicateTransport when a transport
   with the same key was added before and otherwise adds the transport, so the
   transport map holds, for every key of a successful call, the transport of
   the first call made with that key and nothing else. *)
TransportCalls == {i \in DOMAIN builder.log : builder.log[i].key \in Protocol}
C20_OnePerKey ==
    /\ \A i \in TransportCalls :
           builder.log[i].ret =
               IF \E j \in TransportCalls : j < i /\ builder.log[j].key = builder.log[i].key
               THEN "DuplicateTransport" ELSE "Ok"
    /\ DOMAIN builder.transports = {builder.log[i].key : i \in TransportCalls}
    /\ \A key \in DOMAIN builder.transports :
           builder.transports[key] = Min({i \in TransportCalls : builder.log[i].key = key})
    /\ builder.step = "Built" => transports = DOMAIN builder.transports
C20_Witness ==
    /\ builder.step = "Dropped"
    /\ Len(builder.log) = 3
    /\ builder.log[1].key = builder.log[3].key
    /\ builder.log[3].ret = "DuplicateTransport"
    /\ Cardinality(DOMAIN builder.transports) = 2

(* C26: promotion is atomic for an observer of the peer manager: in the step
   of Manager::poll that returns ConnectionEstablished for a connection id,
   that id has left the pending map when the call returns. *)
C26_PromotionStep ==
    \A i \in (DOMAIN peerOut') \ (DOMAIN peerOut) :
        IsEstablished(peerOut'[i]) =>
            /\ peerOut'[i].connection_id \in DOMAIN pending
            /\ peerOut'[i].connection_id \notin DOMAIN pending'
C26_PromotionAtomic == [][C26_PromotionStep]_vars
C26_Witness ==
    /\ \E i \in DOMAIN peerOut : IsEstablished(peerOut[i])
    /\ DOMAIN pending # {}

(* C27: the negotiators keep their step order. Outbound: the list is sent,
   then flushed, then the remote list is read, then the negotiator completes.
   Inbound: the remote list is read, then the list is sent, then flushed, then
   the negotiator completes. No step is skipped, and a poll never moves a
   negotiator back to an earlier step. *)
StepRank(side, state) ==
    IF state = "Done" THEN 4
    ELSE IF side = "out"
         THEN (IF state = "SendProtocol" THEN 1 ELSE IF state = "Flush" THEN 2 ELSE 3)
         ELSE (IF state = "RecvProtocol" THEN 1 ELSE IF state = "SendProtocol" THEN 2 ELSE 3)
StepFacts(side, queued, flushed, read) ==
    /\ neg[side].buf = (IF queued THEN <<Encode(neg[side].protocols)>> ELSE << >>)
    /\ wire[side] = (IF flushed THEN <<Encode(neg[side].protocols)>> ELSE << >>)
    /\ neg[side].received.some = read
C27_InOrder ==
    \A side \in negActive :
        /\ (side = "out" /\ neg[side].state = "SendProtocol") => StepFacts(side, FALSE, FALSE, FALSE)
        /\ (side = "out" /\ neg[side].state = "Flush") => StepFacts(side, TRUE, FALSE, FALSE)
        /\ (side = "out" /\ neg[side].state = "RecvProtocol") => StepFacts(side, FALSE, TRUE, FALSE)
        /\ (side = "in" /\ neg[side].state = "RecvProtocol") => StepFacts(side, FALSE, FALSE, FALSE)
        /\ (side = "in" /\ neg[side].state = "SendProtocol") => StepFacts(side, FALSE, FALSE, TRUE)
        /\ (side = "in" /\ neg[side].state = "Flush") => StepFacts(side, TRUE, FALSE, TRUE)
        /\ neg[side].result = "Ok" => StepFacts(side, FALSE, TRUE, TRUE)
C27_NeverBack ==
    \A side \in negActive :
        StepRank(side, neg'[side].state) >= StepRank(side, neg[side].state)
C27_StepOrder == []C27_InOrder /\ [][C27_NeverBack]_vars
C27_Witness ==
    /\ negActive = {"in"}
    /\ neg["in"].result = "Ok"
    /\ Len(neg["in"].protocols) = 2
    /\ wire["in"] = <<Encode(neg["in"].protocols)>>

(* C28: a negotiator whose remote closed the substream before the remote list
   arrived fails with NegotiationFailed, and a negotiator whose substream
   reports an I/O error in the step it is at (sending, flushing or receiving)
   fails with IoError; NegotiationFailed is returned in no other case. *)
NegView(side) ==
    [n |-> neg[side], rxq |-> rx[side], wire |-> wire[side], closed |-> rxClosed[side],
     ret |-> FALSE]
NoIoError(io) == io.ready # "err" /\ io.send # "err" /\ io.flush # "err" /\ io.next # "err"
NoIoPending(io) == io.ready # "pending" /\ io.flush # "pending"
C28_Outcomes ==
    \A side \in negActive :
        (neg[side].result = "none" /\ ~neg[side].timeout) =>
            \A io \in IoChoices :
                LET r == NegPollResult(side, NegView(side), io).n
                    closedEarly == rxClosed[side] /\ rx[side] = << >> /\ ~neg[side].received.some
                IN /\ (closedEarly /\ NoIoError(io) /\ NoIoPending(io)) =>
                          r.result = "NegotiationFailed"
                   /\ (closedEarly /\ neg[side].state = "RecvProtocol" /\ io.next # "err") =>
                          r.result = "NegotiationFailed"
                   /\ (neg[side].state = "SendProtocol" /\ io.ready = "err") =>
                          r.result = "IoError"
                   /\ (neg[side].state = "SendProtocol" /\ io.ready = "ok" /\ io.send = "err") =>
                          r.result = "IoError"
                   /\ (neg[side].state = "Flush" /\ io.flush = "err") => r.result = "IoError"
                   /\ (neg[side].state = "RecvProtocol" /\ io.next = "err") =>
                          r.result = "IoError"
C28_FailureStep ==
    \A side \in negActive :
        (neg[side].result = "none" /\ neg'[side].result = "NegotiationFailed") =>
            /\ rxClosed[side]
            /\ rx[side] = << >>
            /\ ~neg'[side].received.some
C28_CloseAndIoErrors == []C28_Outcomes /\ [][C28_FailureStep]_vars
C28_Witness ==
    \E side \in negActive :
        /\ neg[side].result = "NegotiationFailed"
        /\ rxClosed[side]
        /\ side = "out" => wire[side] = <<Encode(neg[side].protocols)>>

(* C29: a Node::dial call that returns NoProtocolsInMultiaddr or
   TransportNotFound leaves the ConnectionId pool as it was: an id is taken
   only by a dial that reaches add_outgoing. *)
DialErrored ==
    /\ nodePc = "idle" /\ nodePc' = "idle"
    /\ conns' = conns /\ pending' = pending
    /\ dialRet'.ret \in {"NoProtocolsInMultiaddr", "TransportNotFound"}
    /\ (dialRet' # dialRet \/ slab' # slab)
C29_DialErrorStep == DialErrored => Live(slab') = Live(slab)
C29_DialErrorKeepsPool == [][C29_DialErrorStep]_vars

(* C30: a driver task that has terminated has emitted exactly one Closed event
   and nothing after it, on every termination path, the one taken when every
   command sender was dropped included. *)
C30_ClosedOnTermination ==
    driver.pc = "done" =>
        /\ ClosedCount(drvLog.sent) + ClosedCount(drvLog.lost) = 1
        /\ drvLog.steps # << >>
        /\ drvLog.steps[Len(drvLog.steps)] = "emit_closed"

(* C24: parsing and formatting of StreamProtocol are mutually inverse: a value
   built by StreamProtocol::new, formatted and parsed again, is equal to the
   value it started from, and a text that parses, parsed and formatted again,
   is the text it started from. *)
C24_RoundTrip ==
    Len(roundTrip.steps) = 2 =>
        /\ roundTrip.start.kind = "value" => roundTrip.steps[2] = roundTrip.start
        /\ roundTrip.start.kind = "text" => roundTrip.steps[2] = roundTrip.start

(* C25: from_str splits the text at its last '@' and the part before it at its
   first '/'. It returns MissingAt exactly when the text has no '@', otherwise
   MissingSlash exactly when the part before the last '@' has no '/', otherwise
   InvalidVersion exactly when the part after the last '@' is no valid semver,
   and otherwise the value whose namespace, name and version are the three
   parts and whose full text is the input. *)
HasChar(s, ch) == \E i \in DOMAIN s : s[i] = ch
IsLast(s, i, ch) == s[i] = ch /\ \A j \in DOMAIN s : j > i => s[j] # ch
IsFirst(s, i, ch) == s[i] = ch /\ \A j \in DOMAIN s : j < i => s[j] # ch
C25_Expected(s, r) ==
    IF ~HasChar(s, "@") THEN r = ErrorItem("MissingAt")
    ELSE \A i \in DOMAIN s :
             IsLast(s, i, "@") =>
                 LET path == SubSeq(s, 1, i - 1)
                     version_str == SubSeq(s, i + 1, Len(s))
                 IN IF ~HasChar(path, "/") THEN r = ErrorItem("MissingSlash")
                    ELSE IF ~VersionParse(version_str).ok THEN r = ErrorItem("InvalidVersion")
                    ELSE /\ r.kind = "value"
                         /\ r.value.full = s
                         /\ VersionDisplay(r.value.version) = version_str
                         /\ \A k \in DOMAIN path :
                                IsFirst(path, k, "/") =>
                                    /\ r.value.namespace = SubSeq(path, 1, k - 1)
                                    /\ r.value.name = SubSeq(path, k + 1, Len(path))
C25_FromStrOutcome ==
    (roundTrip.start.kind = "text" /\ roundTrip.steps # << >>) =>
        C25_Expected(roundTrip.start.text, roundTrip.steps[1])
C25_Witness ==
    /\ roundTrip.start.kind = "text"
    /\ roundTrip.steps # << >>
    /\ roundTrip.steps[1].kind = "value"
    /\ Cardinality(Positions(roundTrip.start.text, "@")) = 2
    /\ roundTrip.steps[1].value.name = <<"@">>

(* C21: after outbound negotiation failed with NegotiationFailed the ping
   handler returns exactly one NotifyProtocol(Err(UnsupportedProtocol)) and
   every later poll returns Pending, whatever events arrive afterwards: that
   notification is the last event the handler returns. *)
IsUnsupported(e) == e.type = "NotifyProtocol" /\ e.result = "UnsupportedProtocol"
C21_UnsupportedOnceThenQuiet ==
    /\ \A i \in DOMAIN pingLog.out : IsUnsupported(pingLog.out[i]) => i = Len(pingLog.out)
    /\ (handler.state = "Inactive" /\ handler.reported) =>
           CountIn(pingLog.out, IsUnsupported) = 1

(* C22: an outbound ping whose echo has not arrived when the ping timeout
   elapses makes the handler return exactly one NotifyProtocol(Err(Timeout))
   for that ping; the handler stays Active, and once the ping interval has
   elapsed its next poll asks for the next ping attempt. *)
EventsOf(n) == {i \in DOMAIN pingLog.out : pingLog.out[i].ping = n}
C22_TimeoutNotified ==
    \A n \in DOMAIN pingLog.pings :
        pingLog.pings[n].result = "Timeout" =>
            /\ Cardinality(EventsOf(n)) = 1
            /\ \A i \in EventsOf(n) : pingLog.out[i] = NotifyProtocol("Timeout", n)
            /\ pingLog.pings[n].echo = << >>
C22_NextAttempt ==
    (/\ handler.state = "Active"
     /\ handler.outbound = NoOutbound
     /\ handler.pending_errors = << >>
     /\ handler.interval = "elapsed") =>
        \A payload \in Payloads, ioOut \in PingIo, ioIn \in PingIo :
            LET c == HandlerPoll(handler, substreams, pingLog, payload, ioOut, ioIn)
            IN c.ret = OutboundSubstreamRequest /\ c.h.outbound = OpenStream
TimedOut ==
    /\ Len(pingLog'.pings) = Len(pingLog.pings) + 1
    /\ pingLog'.pings[Len(pingLog'.pings)].result = "Timeout"
C22_TimeoutStep ==
    TimedOut =>
        /\ handler.outbound.fut.delay = "fired"
        /\ ~(handler.outbound.fut.stage = "read" /\ Len(substreams["out"].rx) >= PING_SIZE)
        /\ pingLog'.out = Append(pingLog.out, NotifyProtocol("Timeout", Len(pingLog'.pings)))
        /\ handler'.state = "Active"
        /\ handler'.outbound = NoOutbound
        /\ handler'.interval = "waiting"
C22_TimeoutKeepsPinging ==
    [](C22_TimeoutNotified /\ C22_NextAttempt) /\ [][C22_TimeoutStep]_vars
C22_Witness ==
    /\ handler.state = "Active"
    /\ handler.outbound = OpenStream
    /\ Len(pingLog.out) = 3
    /\ pingLog.out[2] = NotifyProtocol("Timeout", 1)
    /\ pingLog.out[3] = OutboundSubstreamRequest

(* C23: in the ping exchange recv_ping writes back exactly the bytes it read,
   and send_ping succeeds exactly when the PING_SIZE bytes it reads equal the
   bytes it sent; bytes that differ give an I/O error of kind InvalidData, and
   on success the substream of the ping is handed back for the next ping. *)
IsPrefix(s, t) == Len(s) <= Len(t) /\ s = SubSeq(t, 1, Len(s))
C23_Echo ==
    /\ IsPrefix(substreams["in"].wire \o substreams["in"].wbuf, substreams["in"].sent)
    /\ handler.pong.stage = "flush" =>
           /\ substreams["in"].wbuf = handler.pong.payload
           /\ Len(handler.pong.payload) = PING_SIZE
    /\ \A n \in DOMAIN pingLog.pings :
           LET p == pingLog.pings[n]
           IN /\ p.result = "Ok" <=> (Len(p.echo) = PING_SIZE /\ p.echo = p.payload)
              /\ p.result = "Io(InvalidData)" <=> (Len(p.echo) = PING_SIZE /\ p.echo # p.payload)
PingSucceeded ==
    /\ Len(pingLog'.pings) = Len(pingLog.pings) + 1
    /\ pingLog'.pings[Len(pingLog'.pings)].result = "Ok"
C23_HandBack ==
    PingSucceeded =>
        /\ handler'.outbound = Idle(handler.outbound.stream)
        /\ substreams'["out"].id = handler.outbound.stream
        /\ substreams'["out"].id = substreams["out"].id
C23_PingExchange == []C23_Echo /\ [][C23_HandBack]_vars
C23_Witness ==
    /\ substreams["in"].sent = Payload(1)
    /\ substreams["in"].wire = Payload(1)
    /\ Len(pingLog.pings) = 2
    /\ pingLog.pings[1].result = "Ok"
    /\ pingLog.pings[1].stream = pingLog.pings[2].stream
    /\ pingLog.pings[2].result = "Io(InvalidData)"

\* ---------------------------------------------------------------------------
\* C31: the error of the final Closed event is the first error recorded. A
\* close triggered by a connection error ends in Closed carrying that error,
\* whatever closing the muxer would have reported; a close triggered by the
\* Close command ends in Closed carrying the muxer-close error when closing
\* the muxer failed and no error when it succeeded.
ClosedEvents ==
    {ev \in Range(drvLog.sent) \cup Range(drvLog.lost) : ev.type = "Closed"}
C31_FirstErrorWins ==
    \A ev \in ClosedEvents :
        /\ drvLog.trigger = "error" => ev.error = "ConnectionError"
        /\ drvLog.trigger = "command" =>
              /\ drvLog.muxerResult # "none"
              /\ ev.error = IF drvLog.muxerResult = "ok" THEN NoError ELSE "IO"
C31_Witness ==
    /\ drvLog.trigger = "error"
    /\ \E ev \in ClosedEvents : ev.error = "ConnectionError"

\* ---------------------------------------------------------------------------
\* C32: within one Manager::poll call a ready driver event is returned as a
\* PeerEvent before any ready pending-completion event, and the events of each
\* source are returned in their arrival order.
PendingCompletionTypes ==
    {"ConnectionEstablished", "PendingOutboundConnectionError", "PendingInboundConnectionError"}
DriverEventReady ==
    /\ driver.via = "spawn_connection"
    /\ Len(drvLog.sent) + Len(drvLog.lost) > Len(drvLog.received)
ManagerReturned == Len(peerOut') = Len(peerOut) + 1
C32_DriverFirst ==
    (ManagerReturned /\ DriverEventReady) =>
        peerOut'[Len(peerOut')].type \notin PendingCompletionTypes
C32_ArrivalOrder ==
    (ManagerReturned /\ peerOut'[Len(peerOut')].type \in PendingCompletionTypes) =>
        /\ pending_peer_events # << >>
        /\ peerOut'[Len(peerOut')].att = Head(pending_peer_events).att
C32_DriverEventsFirst == [][C32_DriverFirst]_vars /\ [][C32_ArrivalOrder]_vars

\* ---------------------------------------------------------------------------
\* C33: an outbound negotiation that fails with Timeout or IoError makes the
\* ping handler emit exactly one NotifyProtocol(Err(Io(..))) for that failure;
\* the handler stays Active, asks for a new outbound substream afterwards, and
\* reports no UnsupportedProtocol because of it.
IsNegotiationIo(e) ==
    e.type = "NotifyProtocol" /\ e.result \in {"Io(TimedOut)", "Io(Other)"} /\ e.ping = 0
IsQueuedNegotiationIo(e) == e.kind \in {"Io(TimedOut)", "Io(Other)"} /\ e.ping = 0
C33_OncePerFailure ==
    CountIn(pingLog.out, IsNegotiationIo)
        + CountIn(handler.pending_errors, IsQueuedNegotiationIo) = pingLog.failed
OutboundFailedIo ==
    /\ pingLog'.requested = pingLog.requested - 1
    /\ pingLog'.failed = pingLog.failed + 1
C33_FailureStep ==
    OutboundFailedIo =>
        /\ handler'.state = handler.state
        /\ handler'.reported = handler.reported
        /\ handler'.outbound = NoOutbound
        /\ Len(handler'.pending_errors) = Len(handler.pending_errors) + 1
        /\ IsQueuedNegotiationIo(handler'.pending_errors[1])
        /\ handler.state = "Active" =>
              \A ioIn \in PingIo :
                  LET c == HandlerPoll(handler', substreams', pingLog', Payload(0), IoOk, ioIn)
                      d == HandlerPoll([c.h EXCEPT !.interval = "elapsed", !.pending_errors = << >>],
                                       c.ss, c.log, Payload(0), IoOk, IoOk)
                  IN /\ c.ret = NotifyProtocol(handler'.pending_errors[1].kind, 0)
                     /\ c.h.state = "Active"
                     /\ c.h.pending_errors = handler.pending_errors
                     /\ c.h.outbound = NoOutbound
                     /\ d.ret = OutboundSubstreamRequest
                     /\ d.h.state = "Active"
C33_NegotiationIoError == []C33_OncePerFailure /\ [][C33_FailureStep]_vars
C33_Witness ==
    /\ handler.state = "Active"
    /\ Len(pingLog.out) = 3
    /\ pingLog.out[1] = OutboundSubstreamRequest
    /\ pingLog.out[2] = NotifyProtocol("Io(TimedOut)", 0)
    /\ pingLog.out[3] = OutboundSubstreamRequest
    /\ pingLog.failed = 1
    /\ pingLog.inbound = 0

\* ---------------------------------------------------------------------------
\* C34: the value carried by the ping error Timeout(n) is the configured ping
\* timeout in milliseconds, for every configured timeout (20000 for the
\* default configuration).
C34_TimeoutValue ==
    \A n \in DOMAIN pingLog.pings :
        pingLog.pings[n].result = "Timeout" =>
            pingLog.pings[n].deadline = handler.config.timeout

\* ---------------------------------------------------------------------------
\* C35: a pending task that finds both the abort signal and the upgrade result
\* available when it is polled reports PendingFailed(Aborted): the upgrade
\* result is discarded and no ConnectionEstablished is emitted for that
\* connection attempt, for outgoing and for incoming attempts.
BothAvailable(a) ==
    /\ a \in DOMAIN conns
    /\ conns[a].abortedAt \in {"pending", "resolved"}
    /\ conns[a].fut # "pending"
C35_NoEstablished ==
    \A a \in DOMAIN conns :
        BothAvailable(a) =>
            /\ \A i \in DOMAIN pending_peer_events :
                   pending_peer_events[i].att = a =>
                       /\ pending_peer_events[i].type = "PendingFailed"
                       /\ pending_peer_events[i].error = "Aborted"
            /\ \A i \in DOMAIN peerOut :
                   peerOut[i].att = a =>
                       /\ peerOut[i].type \in {"PendingOutboundConnectionError",
                                               "PendingInboundConnectionError"}
                       /\ peerOut[i].error = "Aborted"
C35_RaceStep ==
    \A a \in DOMAIN conns :
        (/\ conns[a].task = "select" /\ conns'[a].task = "done"
         /\ conns[a].sender = "dropped" /\ conns[a].fut # "pending") =>
            /\ Len(pending_peer_events') = Len(pending_peer_events) + 1
            /\ LET ev == pending_peer_events'[Len(pending_peer_events')]
               IN /\ ev.type = "PendingFailed"
                  /\ ev.error = "Aborted"
                  /\ ev.att = a
                  /\ ev.connection_id = conns[a].id
C35_AbortWinsRace == []C35_NoEstablished /\ [][C35_RaceStep]_vars
C35_Witness ==
    \E a \in DOMAIN conns :
        /\ conns[a].abortedAt = "resolved"
        /\ conns[a].fut = "ok"
        /\ conns[a].dir = "in"
        /\ \E i \in DOMAIN peerOut :
               /\ peerOut[i].att = a
               /\ peerOut[i].type = "PendingInboundConnectionError"
               /\ peerOut[i].error = "Aborted"

\* ---------------------------------------------------------------------------
\* C36: Manager::poll never fails fatally in a node fed through Node::dial and
\* incoming transport events: every ConnectionEstablished event it receives
\* finds the entry of its connection id in pending, and every PendingFailed
\* event releases an id that is still live.
C36_NoPanic == panicked = "none"
ManagerReceives ==
    /\ pending_peer_events # << >>
    /\ pending_peer_events' = Tail(pending_peer_events)
C36_ReceiveStep ==
    ManagerReceives =>
        LET ev == Head(pending_peer_events)
        IN /\ ev.type = "ConnectionEstablished" =>
                  /\ ev.connection_id \in DOMAIN pending
                  /\ ev.connection_id \notin DOMAIN pending'
           /\ ev.type = "PendingFailed" =>
                  /\ ev.connection_id \in Live(slab)
                  /\ ev.connection_id \notin Live(slab')
           /\ panicked' = "none"
C36_PollNeverPanics == []C36_NoPanic /\ [][C36_ReceiveStep]_vars
C36_Witness ==
    /\ panicked = "none"
    /\ \E i \in DOMAIN peerOut : peerOut[i].type = "ConnectionEstablished"
                                     /\ peerOut[i].connection_origin = "Listener"
    /\ \E i \in DOMAIN peerOut : peerOut[i].type = "PendingOutboundConnectionError"

\* ---------------------------------------------------------------------------
\* C37: for every incoming connection the IncomingConnection event of the
\* node stream comes before the ConnectionEstablished event of the same
\* connection, in every interleaving of transport events and upgrade
\* completion.
NodeEmitted == nodeOut \o pending_events
C37_IncomingFirst ==
    \A j \in DOMAIN NodeEmitted :
        (/\ NodeEmitted[j].type = "ConnectionEstablished"
         /\ conns[NodeEmitted[j].att].dir = "in") =>
            \E i \in 1..(j - 1) :
                /\ NodeEmitted[i].type = "IncomingConnection"
                /\ NodeEmitted[i].att = NodeEmitted[j].att
C37_Witness ==
    \E i, j \in DOMAIN nodeOut :
        /\ i < j
        /\ nodeOut[i].type = "IncomingConnection"
        /\ nodeOut[j].type = "ConnectionEstablished"
        /\ nodeOut[i].att = nodeOut[j].att
        /\ \E k \in DOMAIN nodeOut : k < j /\ k # i /\ nodeOut[k].type = "IncomingConnection"

\* ---------------------------------------------------------------------------
\* C38: the ping handler has at most one outbound substream request
\* outstanding: after an OutboundSubstreamRequest it emits no further one
\* until NewOutboundStream or FailNegotiation has answered that request, and
\* it never requests a substream while it holds an idle or in-flight ping
\* substream.
C38_OneOutstanding == pingLog.requested <= 1
Requests ==
    /\ Len(pingLog'.out) = Len(pingLog.out) + 1
    /\ pingLog'.out[Len(pingLog'.out)] = OutboundSubstreamRequest
C38_RequestStep ==
    Requests =>
        /\ pingLog.requested = 0
        /\ handler'.outbound = OpenStream
        /\ substreams'["out"] = NoStream
C38_OneRequestOutstanding == []C38_OneOutstanding /\ [][C38_RequestStep]_vars

\* ---------------------------------------------------------------------------
\* C39: the ping handler keeps answering inbound pings whatever its outbound
\* state is: while the inbound substream is healthy and the handler is polled,
\* every ping received on it is eventually echoed, also after the handler has
\* reported UnsupportedProtocol for its outbound side. Stated per poll: a poll
\* whose I/O succeeds, made while a received ping is unanswered on a healthy
\* inbound substream, sends the echo of a ping.
InboundPingUnanswered ==
    /\ substreams["in"].id # 0
    /\ ~substreams["in"].closed
    /\ substreams["in"].wire # substreams["in"].sent
C39_InboundPingsAnswered ==
    InboundPingUnanswered =>
        \A payload \in Payloads :
            LET c == HandlerPoll(handler, substreams, pingLog, payload, IoOk, IoOk)
            IN /\ c.ss["in"].id = substreams["in"].id
               /\ Len(c.ss["in"].wire) = Len(substreams["in"].wire) + PING_SIZE
               /\ IsPrefix(c.ss["in"].wire, substreams["in"].sent)

(* C40: an outbound and an inbound negotiator at the two ends of one reliable
   substream never deadlock: unless a timeout fires or the substream reports
   an I/O error, some end can always advance (a poll with the substream ready
   changes it, or a flushed frame is in transit) until both have completed
   with success, every such step brings the pair closer to completion, and
   the inbound side sends its list only after it has received the list of the
   outbound side. *)
InboundHasSent ==
    \/ neg["in"].state = "Flush"
    \/ neg["in"].buf # << >>
    \/ wire["in"] # << >>
    \/ rx["out"] # << >>
    \/ neg["out"].received.some
C40_ListAfterList ==
    InboundHasSent =>
        /\ neg["in"].received = Some(neg["out"].protocols)
        /\ neg["out"].state \in {"RecvProtocol", "Done"}
NegInterrupted == \E side \in Sides : neg[side].timeout \/ neg[side].result = "IoError"
BothComplete == \A side \in Sides : neg[side].result = "Ok"
NegIoOk == [ready |-> "ok", send |-> "ok", flush |-> "ok", next |-> "ok"]
NegAdvances(side) ==
    /\ neg[side].result = "none"
    /\ LET c == NegPollResult(side, NegView(side), NegIoOk)
       IN c.n # neg[side] \/ c.rxq # rx[side] \/ c.wire # wire[side]
C40_CanAdvance ==
    (~NegInterrupted /\ ~BothComplete) =>
        \E side \in Sides : NegAdvances(side) \/ wire[Other(side)] # << >>
StepsLeft(side) ==
    IF neg[side].state = "Done" THEN 0
    ELSE IF neg[side].state = (IF side = "out" THEN "SendProtocol" ELSE "RecvProtocol") THEN 3
    ELSE IF neg[side].state = (IF side = "out" THEN "Flush" ELSE "SendProtocol") THEN 2
    ELSE 1
NegRank(side) == 4 * StepsLeft(side) + 2 * Len(wire[side]) + Len(rx[side])
C40_RankStep ==
    LET before == NegRank("out") + NegRank("in")
        after == (NegRank("out") + NegRank("in"))'
    IN NegInterrupted' \/ after < before
C40_NoDeadlock == []C40_ListAfterList /\ []C40_CanAdvance /\ [][C40_RankStep]_vars
C40_Witness ==
    /\ negActive = Sides
    /\ BothComplete
    /\ ~NegInterrupted
    /\ Len(neg["out"].protocols) = 2
    /\ neg["in"].received = Some(neg["out"].protocols)
    /\ neg["out"].received = Some(neg["in"].protocols)

====
